---- MODULE Spec2Model ----
(***************************************************************************)
(* A model of the TTS streaming server's connection layer:                 *)
(*   src/src/tts/stream.py        AudioStream, StreamManager               *)
(*   src/src/api/dependencies.py  validate_connection_limit,               *)
(*                                WebSocketManager, handle_websocket_error *)
(*   src/src/api/websocket.py     WSMessageHandler, the endpoint handler   *)
(*   src/src/tts/model.py         TTSModel.generate_speech_stream          *)
(*                                                                         *)
(* The program runs on one asyncio event loop: a task runs without         *)
(* interruption from one suspension point (an await that really waits) to  *)
(* the next.  Every action below is one such run of one task.              *)
(*                                                                         *)
(* SpecRegistry is the registry (StreamManager and WebSocketManager) under *)
(* concurrent admissions and removals.  SpecSession is one                 *)
(* WSMessageHandler session with all the tasks it owns.  SpecBroadcast is  *)
(* one call of WebSocketManager.broadcast next to concurrent connect and   *)
(* disconnect calls.  SpecChunking and SpecSynthesis apply                 *)
(* TTSModel.generate_speech_stream and WSMessageHandler._handle_synthesis  *)
(* to inputs drawn from small sets.                                        *)
(***************************************************************************)
EXTENDS Integers, Sequences, FiniteSets, TLC

\* settings.MAX_CONNECTIONS (100 by default, read from the environment),
\* scaled down.
MAX_CONNECTIONS == 2

\* The client transports (websockets) that ever try to be admitted: one more
\* than the capacity.
Conns == 1 .. (MAX_CONNECTIONS + 1)

\* The concurrent callers of WebSocketManager.disconnect.
NumCallers == 2

Callers == 1 .. NumCallers

\* starlette.status: HTTP_503_SERVICE_UNAVAILABLE, WS_1013_TRY_AGAIN_LATER,
\* and the code of a plain websocket.close().
HTTP_503_SERVICE_UNAVAILABLE == 503

WS_1013_TRY_AGAIN_LATER == 1013

WS_1000_NORMAL_CLOSURE == 1000

VARIABLES
  \* --- the registry (SpecRegistry) ---
  streams,        \* stream_manager._streams: the registered session ids
  active_connections,  \* ws_manager._active_connections: its session ids
  smLock,         \* stream_manager._lock: 0 (free) or the caller holding it
  connLock,       \* ws_manager._connection_lock: 0 (free) or its holder
  cpc,            \* per transport: where its admission call stands
  accepted,       \* per transport: websocket.accept() has succeeded
  closeCode,      \* per transport: 0, or the code it was closed with
  sActive,        \* per transport: its AudioStream._active
  pingTask,       \* per transport: its AudioStream._ping_task
  err,            \* per transport: the error its admission call raised
  dpc,            \* per disconnect caller: where the call stands
  dsid,           \* per disconnect caller: the session id it was given
  \* --- one WSMessageHandler session (SpecSession) ---
  wsState,        \* the websocket: "connecting", "open", "closed" (by the server)
  clientGone,     \* the client has disconnected: sends and receives fail
  hActive,        \* WSMessageHandler._active
  sAct,           \* the session's AudioStream._active
  streamLock,     \* the session's AudioStream._lock is held
  registered,     \* the session's stream is in stream_manager._streams
  queue,          \* WSMessageHandler._message_queue
  nRecv,          \* frames received from the client so far
  pc,             \* where each task of the session stands
  clIdx,          \* cleanup's position in self._tasks, per task running it
  cancelReq,      \* per task: a cancellation is pending
  sOut,           \* the synthesis tasks appended to self._tasks, in order
  chunkIdx,       \* chunks of the running streaming operation sent so far
  cur,            \* the message the consumer is handling
  \* --- what has happened (history) ---
  handledSeq,     \* ids of the messages whose handler has started, in order
  finishedSeq,    \* ids of the messages whose handler has ended, in order
  sent,           \* audio frames sent: [op, k], k = 0 for the end marker
  ctl,            \* success and error frames sent: [msg, type]
  kaTimeout,      \* the stream's keepalive ping has timed out or failed
  acceptFailed,   \* websocket.accept() has failed
  \* --- one call of WebSocketManager.broadcast (SpecBroadcast) ---
  bpc,            \* where the call stands
  bStart,         \* the session ids registered when the call started
  bSeen,          \* the session ids the loop has been given so far
  bCur,           \* the session id whose send is awaited, or 0
  bFailed,        \* the list "disconnected"
  bIdx,           \* entries of "disconnected" passed to disconnect so far
  \* --- TTSModel.generate_speech_stream (SpecChunking) ---
  wav,            \* the int16 waveform
  chunk_size,     \* the chunk_size argument, 0 for None
  gi,             \* the loop variable i, or -1 before the loop
  chunks,         \* the byte strings yielded so far
  \* --- WSMessageHandler._handle_synthesis on one message (SpecSynthesis) ---
  synMsg,         \* the message
  synOut,         \* what the call did, or "none" before the call
  \* --- the engine singleton TTSModel and the calls into it (SpecEngine) ---
  initialized,    \* TTSModel._initialized
  built,          \* the number of times TTSModel._model has been assigned
  engineLock,     \* TTSModel._lock: 0 (free) or the task holding it
  engineWaiters,  \* the tasks waiting for TTSModel._lock, in order
  abandoned,      \* engine calls running in threads without a waiting task
  task,           \* per calling task: its call, where it stands, its outcome
  \* --- the locks and the operations that take them (SpecLocks) ---
  held,           \* per lock: 0 (free) or the task holding it
  ltask,          \* per task: its operation, its step in it, its session
  \* --- the shutdown block of lifespan (SpecShutdown) ---
  lifespan        \* where the block stands, its list active_streams, its index

regVars == <<streams, active_connections, smLock, connLock, cpc, accepted,
             closeCode, sActive, pingTask, err, dpc, dsid>>

sessVars == <<wsState, clientGone, hActive, sAct, streamLock, registered,
              queue, nRecv, pc, clIdx, cancelReq, sOut, chunkIdx, cur>>

histVars == <<handledSeq, finishedSeq, sent, ctl, kaTimeout, acceptFailed>>

bcVars == <<bpc, bStart, bSeen, bCur, bFailed, bIdx>>

genVars == <<wav, chunk_size, gi, chunks>>

synVars == <<synMsg, synOut>>

engVars == <<initialized, built, engineLock, engineWaiters, abandoned, task>>

lockVars == <<held, ltask>>

downVars == <<lifespan>>

vars ==
  <<regVars, sessVars, histVars, bcVars, genVars, synVars, engVars, lockVars, downVars>>

(***************************************************************************)
(* Errors                                                                  *)
(***************************************************************************)
NoError == [kind |-> "none", status_code |-> 0, websocket |-> 0]

\* WebSocketError(message, details=None): status_code is fixed to 400 and
\* the details carry no websocket unless the caller put one there.
WebSocketError(details_websocket) ==
  [kind |-> "WebSocketError", status_code |-> 400, websocket |-> details_websocket]

\* validate_connection_limit: at the limit it evaluates
\* WebSocketError("...", status_code=HTTP_503_SERVICE_UNAVAILABLE); the
\* constructor takes no status_code, so that call raises TypeError.  Either
\* way an exception leaves the function at the limit, and it returns True
\* below the limit.
LimitReachedGT(n) == n > MAX_CONNECTIONS

LimitReached(n) == n >= MAX_CONNECTIONS

validate_connection_limit ==
  IF LimitReached(Cardinality(streams)) THEN "raise" ELSE "ok"

\* The transports whose admission call has not started are alike, and so
\* are the callers of disconnect that are idle: transports are numbered in
\* the order in which their admission calls start, callers in the order in
\* which they become busy, and of the session ids that are not registered
\* (a disconnect call does the same for each) one stands for all.
FirstNew ==
  {c \in Conns : cpc[c] = "new" /\ \A b \in Conns : b < c => cpc[b] # "new"}

FirstIdle ==
  {k \in Callers : dpc[k] = "idle" /\ \A j \in Callers : j < k => dpc[j] # "idle"}

AbsentIds ==
  IF Conns \ active_connections = {} THEN {}
  ELSE {CHOOSE sid \in Conns \ active_connections : TRUE}

\* asyncio.Lock.locked() of stream_manager._lock and of
\* ws_manager._connection_lock: "async with lock" goes on in the same run
\* when the lock is free and parks the task when it is held.
LockedNever(lock) == FALSE

Locked(lock) == lock # 0

(***************************************************************************)
(* StreamManager.create_stream after stream.initialize() has returned:     *)
(* async with self._lock: self._streams[sid] = stream.  Taking a free      *)
(* asyncio.Lock does not suspend, so a task that finds the lock free       *)
(* inserts in the same run.  The session id of the stream of transport c   *)
(* is written c.                                                           *)
(***************************************************************************)
\* WebSocketManager.connect after create_stream has returned:
\* async with self._connection_lock: self._active_connections[sid] = ws.
\* The only holder of the connection lock across a suspension is disconnect,
\* which takes the stream lock in the same run and gives both back together
\* (LockNesting below), so a connect that has just held the stream lock never
\* finds the connection lock taken.
ConnectRegister(c) ==
  IF ~Locked(connLock)
  THEN /\ active_connections' = active_connections \cup {c}
       /\ cpc' = [cpc EXCEPT ![c] = "connected"]
  ELSE /\ cpc' = [cpc EXCEPT ![c] = "wait_conn_lock"]
       /\ UNCHANGED active_connections

\* WebSocketManager.connect: validate_connection_limit, then up to the
\* await of websocket.accept() inside AudioStream.initialize.  Any exception
\* is turned into WebSocketError("Failed to establish WebSocket connection").
Connect(c) ==
  /\ c \in FirstNew
  /\ IF validate_connection_limit = "raise"
     THEN /\ cpc' = [cpc EXCEPT ![c] = "rejected"]
          /\ err' = [err EXCEPT ![c] = WebSocketError(0)]
     ELSE /\ cpc' = [cpc EXCEPT ![c] = "accepting"]
          /\ UNCHANGED err
  /\ UNCHANGED <<streams, active_connections, smLock, connLock, accepted,
                 closeCode, sActive, pingTask, dpc, dsid>>
  /\ UNCHANGED <<sessVars, histVars, bcVars, genVars, synVars, engVars, lockVars, downVars>>

\* websocket.accept() returns or raises inside connect.  On success
\* AudioStream.initialize starts the ping task, create_stream registers the
\* stream and connect registers the transport.
ConnectAccepted(c, ok) ==
  /\ cpc[c] = "accepting"
  /\ IF ok
     THEN /\ accepted' = [accepted EXCEPT ![c] = TRUE]
          /\ pingTask' = [pingTask EXCEPT ![c] = "run"]
          /\ UNCHANGED err
          /\ IF ~Locked(smLock)
             THEN /\ streams' = streams \cup {c}
                  /\ ConnectRegister(c)
             ELSE /\ cpc' = [cpc EXCEPT ![c] = "wait_stream_lock"]
                  /\ UNCHANGED <<streams, active_connections>>
     ELSE /\ cpc' = [cpc EXCEPT ![c] = "failed"]
          /\ err' = [err EXCEPT ![c] = WebSocketError(0)]
          /\ UNCHANGED <<accepted, pingTask, streams, active_connections>>
  /\ UNCHANGED <<smLock, connLock, closeCode, sActive, dpc, dsid>>
  /\ UNCHANGED <<sessVars, histVars, bcVars, genVars, synVars, engVars, lockVars, downVars>>

\* connect, woken with stream_manager._lock.
ConnectStreamLock(c) ==
  /\ cpc[c] = "wait_stream_lock"
  /\ ~Locked(smLock)
  /\ streams' = streams \cup {c}
  /\ ConnectRegister(c)
  /\ UNCHANGED <<smLock, connLock, accepted, closeCode, sActive, pingTask,
                 err, dpc, dsid>>
  /\ UNCHANGED <<sessVars, histVars, bcVars, genVars, synVars, engVars, lockVars, downVars>>

\* WSMessageHandler.initialize: stream_manager.create_stream(websocket) with
\* no check of the limit, up to the await of websocket.accept().
Initialize(c) ==
  /\ c \in FirstNew
  /\ cpc' = [cpc EXCEPT ![c] = "h_accepting"]
  /\ UNCHANGED <<streams, active_connections, smLock, connLock, accepted,
                 closeCode, sActive, pingTask, err, dpc, dsid>>
  /\ UNCHANGED <<sessVars, histVars, bcVars, genVars, synVars, engVars, lockVars, downVars>>

\* websocket.accept() returns or raises inside initialize.
InitializeAccepted(c, ok) ==
  /\ cpc[c] = "h_accepting"
  /\ IF ok
     THEN /\ accepted' = [accepted EXCEPT ![c] = TRUE]
          /\ pingTask' = [pingTask EXCEPT ![c] = "run"]
          /\ UNCHANGED err
          /\ IF ~Locked(smLock)
             THEN /\ streams' = streams \cup {c}
                  /\ cpc' = [cpc EXCEPT ![c] = "h_registered"]
             ELSE /\ cpc' = [cpc EXCEPT ![c] = "h_wait_stream_lock"]
                  /\ UNCHANGED streams
     ELSE /\ cpc' = [cpc EXCEPT ![c] = "h_failed"]
          /\ err' = [err EXCEPT ![c] = WebSocketError(0)]
          /\ UNCHANGED <<accepted, pingTask, streams>>
  /\ UNCHANGED <<active_connections, smLock, connLock, closeCode, sActive,
                 dpc, dsid>>
  /\ UNCHANGED <<sessVars, histVars, bcVars, genVars, synVars, engVars, lockVars, downVars>>

\* initialize, woken with stream_manager._lock.
InitializeStreamLock(c) ==
  /\ cpc[c] = "h_wait_stream_lock"
  /\ ~Locked(smLock)
  /\ streams' = streams \cup {c}
  /\ cpc' = [cpc EXCEPT ![c] = "h_registered"]
  /\ UNCHANGED <<active_connections, smLock, connLock, accepted, closeCode,
                 sActive, pingTask, err, dpc, dsid>>
  /\ UNCHANGED <<sessVars, histVars, bcVars, genVars, synVars, engVars, lockVars, downVars>>

\* handle_websocket_error(error) on the error of a rejected admission: the
\* transport is closed with WS_1013_TRY_AGAIN_LATER only for an error whose
\* status_code is 503 and whose details name the websocket.
HandleWebsocketError(c) ==
  /\ cpc[c] = "rejected"
  /\ cpc' = [cpc EXCEPT ![c] = "handled"]
  /\ closeCode' = [closeCode EXCEPT ![c] =
       IF err[c].status_code = HTTP_503_SERVICE_UNAVAILABLE /\ err[c].websocket = c
       THEN WS_1013_TRY_AGAIN_LATER ELSE @]
  /\ UNCHANGED <<streams, active_connections, smLock, connLock, accepted,
                 sActive, pingTask, err, dpc, dsid>>
  /\ UNCHANGED <<sessVars, histVars, bcVars, genVars, synVars, engVars, lockVars, downVars>>

(***************************************************************************)
(* WebSocketManager.disconnect(session_id), caller k                       *)
(***************************************************************************)
\* StreamManager.remove_stream, entered by caller k holding the connection
\* lock.  The stream lock is only ever held across a suspension by a caller
\* that holds the connection lock too (LockNesting), so k finds it free.  With stream_manager._lock free and the stream registered,
\* AudioStream.close() starts: self._active = False, the ping task is
\* cancelled and awaited.  With no stream registered the lock is released at
\* once and disconnect goes on to "del self._active_connections[sid]" (a
\* KeyError for an entry that is gone is logged by disconnect) and releases
\* the connection lock.
\* "del self._active_connections[session_id]" in disconnect: the map
\* without the key (a KeyError for a key that is gone changes nothing).
DelConnectionSkipped(connections, sid) == connections

DelConnection(connections, sid) == connections \ {sid}

\* "if session_id in self._streams" in remove_stream.
StreamRegisteredAlways(sid) == TRUE

StreamRegistered(sid) == sid \in streams

RemoveStream(k, sid) ==
  IF Locked(smLock)
  THEN /\ dpc' = [dpc EXCEPT ![k] = "wait_stream_lock"]
       /\ dsid' = [dsid EXCEPT ![k] = sid]
       /\ connLock' = k
       /\ UNCHANGED <<smLock, sActive, pingTask, active_connections>>
  ELSE IF StreamRegistered(sid)
       THEN /\ smLock' = k
            /\ connLock' = k
            /\ dsid' = [dsid EXCEPT ![k] = sid]
            /\ sActive' = [sActive EXCEPT ![sid] = FALSE]
            /\ IF pingTask[sid] = "run"
               THEN /\ pingTask' = [pingTask EXCEPT ![sid] = "cancelling"]
                    /\ dpc' = [dpc EXCEPT ![k] = "await_ping"]
               ELSE /\ dpc' = [dpc EXCEPT ![k] = "ws_close"]
                    /\ UNCHANGED pingTask
            /\ UNCHANGED active_connections
       ELSE /\ active_connections' = DelConnection(active_connections, sid)
            /\ connLock' = 0
            /\ dpc' = [dpc EXCEPT ![k] = "idle"]
            /\ dsid' = [dsid EXCEPT ![k] = 0]
            /\ UNCHANGED <<smLock, sActive, pingTask>>

\* disconnect(sid): "if session_id in self._active_connections" is read
\* without the lock; a session id that is not registered is left alone.
Disconnect(k, sid) ==
  /\ k \in FirstIdle
  /\ sid \in active_connections
  /\ IF ~Locked(connLock)
     THEN RemoveStream(k, sid)
     ELSE /\ dpc' = [dpc EXCEPT ![k] = "wait_conn_lock"]
          /\ dsid' = [dsid EXCEPT ![k] = sid]
          /\ UNCHANGED <<active_connections, connLock, smLock, sActive, pingTask>>
  /\ UNCHANGED <<streams, cpc, accepted, closeCode, err>>
  /\ UNCHANGED <<sessVars, histVars, bcVars, genVars, synVars, engVars, lockVars, downVars>>

\* disconnect(sid) for a session id that is not in _active_connections: the
\* test fails and the call returns, with nothing read or written after it.
DisconnectAbsent(k, sid) ==
  /\ k \in FirstIdle
  /\ sid \notin active_connections
  /\ sid \in AbsentIds
  /\ UNCHANGED regVars
  /\ UNCHANGED <<sessVars, histVars, bcVars, genVars, synVars, engVars, lockVars, downVars>>

\* disconnect, woken with ws_manager._connection_lock.
DisconnectConnLock(k) ==
  /\ dpc[k] = "wait_conn_lock"
  /\ ~Locked(connLock)
  /\ RemoveStream(k, dsid[k])
  /\ UNCHANGED <<streams, cpc, accepted, closeCode, err>>
  /\ UNCHANGED <<sessVars, histVars, bcVars, genVars, synVars, engVars, lockVars, downVars>>

\* AudioStream.close inside remove_stream: the cancelled ping task has
\* ended, "await self._ping_task" raises CancelledError, which close
\* swallows; next is the await of websocket.close().
DisconnectPingEnded(k) ==
  /\ dpc[k] = "await_ping"
  /\ pingTask' = [pingTask EXCEPT ![dsid[k]] = "cancelled"]
  /\ dpc' = [dpc EXCEPT ![k] = "ws_close"]
  /\ UNCHANGED <<streams, active_connections, smLock, connLock, cpc, accepted,
                 closeCode, sActive, err, dsid>>
  /\ UNCHANGED <<sessVars, histVars, bcVars, genVars, synVars, engVars, lockVars, downVars>>

\* websocket.close(): a transport that is already closed raises, and close
\* swallows that.
WsClose(code, c) == IF code[c] = 0 THEN [code EXCEPT ![c] = WS_1000_NORMAL_CLOSURE] ELSE code

DisconnectWsClose(k) ==
  /\ dpc[k] = "ws_close"
  /\ closeCode' = WsClose(closeCode, dsid[k])
  /\ dpc' = [dpc EXCEPT ![k] = "closed"]
  /\ UNCHANGED <<streams, active_connections, smLock, connLock, cpc, accepted,
                 sActive, pingTask, err, dsid>>
  /\ UNCHANGED <<sessVars, histVars, bcVars, genVars, synVars, engVars, lockVars, downVars>>

\* close() has returned: del self._streams[sid], the stream lock released,
\* del self._active_connections[sid], the connection lock released.
DisconnectDone(k) ==
  /\ dpc[k] = "closed"
  /\ streams' = streams \ {dsid[k]}
  /\ active_connections' = DelConnection(active_connections, dsid[k])
  /\ smLock' = 0
  /\ connLock' = 0
  /\ dpc' = [dpc EXCEPT ![k] = "idle"]
  /\ dsid' = [dsid EXCEPT ![k] = 0]
  /\ UNCHANGED <<cpc, accepted, closeCode, sActive, pingTask, err>>
  /\ UNCHANGED <<sessVars, histVars, bcVars, genVars, synVars, engVars, lockVars, downVars>>

\* AudioStream._keep_alive of a registered stream: the ping times out or
\* fails and the task closes its own stream (self._active = False,
\* websocket.close()); the stream stays in the registry.
KeepAliveClose(c) ==
  /\ pingTask[c] = "run"
  /\ pingTask' = [pingTask EXCEPT ![c] = "done"]
  /\ sActive' = [sActive EXCEPT ![c] = FALSE]
  /\ closeCode' = WsClose(closeCode, c)
  /\ UNCHANGED <<streams, active_connections, smLock, connLock, cpc, accepted,
                 err, dpc, dsid>>
  /\ UNCHANGED <<sessVars, histVars, bcVars, genVars, synVars, engVars, lockVars, downVars>>


(***************************************************************************)
(* WebSocketManager.broadcast(message), one call                           *)
(*                                                                         *)
(*   disconnected = []                                                     *)
(*   for session_id, connection in self._active_connections.items():       *)
(*       try: await connection.send_text(message)                          *)
(*       except ...: disconnected.append(session_id)                       *)
(*   for session_id in disconnected:                                       *)
(*       await self.disconnect(session_id)                                 *)
(*                                                                         *)
(* The first loop walks the live dict, with a suspension at every send and *)
(* without the connection lock.  The call makes its disconnect calls as    *)
(* the caller Broadcaster.                                                 *)
(***************************************************************************)
Broadcaster == NumCallers

\* connection.send_text(message): it raises on a transport the server has
\* closed, and on a client that is gone (ok = FALSE).
BroadcastSendOk(c, ok) == ok /\ closeCode[c] = 0

\* next() of the iterator of self._active_connections.items().  The
\* iterator remembers the dict's size at its creation (len(bStart)) and the
\* number of items it has still to give: a dict of another size raises
\* RuntimeError("dictionary changed size during iteration"); a dict of the
\* same size gives one of its entries not given yet, and raises
\* RuntimeError("dictionary keys changed during iteration") when there is
\* one more entry than it had to give.  The entries are given in the
\* dict's order, which the model leaves open.
IterNext(acs) ==
  IF Cardinality(acs) # Cardinality(bStart) THEN "raise"
  ELSE IF acs \ bSeen = {} THEN "stop"
  ELSE IF Cardinality(bSeen) >= Cardinality(bStart) THEN "raise"
  ELSE "item"

\* The loop "for session_id in disconnected: await self.disconnect(..)"
\* from entry i of list on, up to the first call that suspends, on the
\* registry maps acs and sts.  A session id that is not in
\* _active_connections is skipped by disconnect; one whose stream is not
\* registered is deleted from _active_connections in the same run when the
\* locks are free.  The result names the entry whose call suspends (sid),
\* or sid = 0 when the loop has ended.
RECURSIVE RemovalLoop(_, _, _, _, _)
RemovalLoop(list, i, acs, sts, busy) ==
  IF i > Len(list) THEN [i |-> Len(list), acs |-> acs, sid |-> 0]
  ELSE IF list[i] \notin acs THEN RemovalLoop(list, i + 1, acs, sts, busy)
  ELSE IF busy \/ list[i] \in sts THEN [i |-> i, acs |-> acs, sid |-> list[i]]
  ELSE RemovalLoop(list, i + 1, acs \ {list[i]}, sts, busy)

\* The second loop of broadcast from entry i on, in one run, with the
\* registry as the run finds it: the maps acs and sts, the connection lock
\* cl and the stream lock sl.  The call of disconnect that suspends is
\* WebSocketManager.disconnect as in Disconnect and RemoveStream above.
BroadcastRemovals(list, i, acs, sts, cl, sl) ==
  LET r == RemovalLoop(list, i, acs, sts, Locked(cl) \/ Locked(sl))
      B == Broadcaster
  IN /\ bIdx' = r.i
     /\ active_connections' = r.acs
     /\ IF r.sid = 0
        THEN /\ bpc' = "returned"
             /\ dpc' = [dpc EXCEPT ![B] = "idle"]
             /\ dsid' = [dsid EXCEPT ![B] = 0]
             /\ connLock' = cl
             /\ smLock' = sl
             /\ UNCHANGED <<sActive, pingTask>>
        ELSE /\ bpc' = "removing"
             /\ dsid' = [dsid EXCEPT ![B] = r.sid]
             /\ IF Locked(cl)
                THEN /\ dpc' = [dpc EXCEPT ![B] = "wait_conn_lock"]
                     /\ connLock' = cl
                     /\ smLock' = sl
                     /\ UNCHANGED <<sActive, pingTask>>
                ELSE IF Locked(sl)
                THEN /\ dpc' = [dpc EXCEPT ![B] = "wait_stream_lock"]
                     /\ connLock' = B
                     /\ smLock' = sl
                     /\ UNCHANGED <<sActive, pingTask>>
                ELSE /\ connLock' = B
                     /\ smLock' = B
                     /\ sActive' = [sActive EXCEPT ![r.sid] = FALSE]
                     /\ IF pingTask[r.sid] = "run"
                        THEN /\ pingTask' = [pingTask EXCEPT ![r.sid] = "cancelling"]
                             /\ dpc' = [dpc EXCEPT ![B] = "await_ping"]
                        ELSE /\ dpc' = [dpc EXCEPT ![B] = "ws_close"]
                             /\ UNCHANGED pingTask

\* broadcast is called: the iterator is created and gives its first item,
\* and the send to it is awaited; with no connection registered both loops
\* end at once.
BroadcastCall ==
  /\ bpc = "idle"
  /\ bStart' = active_connections
  /\ bFailed' = << >>
  /\ bIdx' = 0
  /\ IF active_connections = {}
     THEN /\ bpc' = "returned"
          /\ UNCHANGED <<bSeen, bCur>>
     ELSE /\ bpc' = "sending"
          /\ \E c \in active_connections : /\ bCur' = c
                                           /\ bSeen' = {c}
  /\ UNCHANGED regVars
  /\ UNCHANGED <<sessVars, histVars, genVars, synVars, engVars, lockVars, downVars>>

\* The awaited send returns (ok) or raises: a session whose send raised is
\* appended to "disconnected".  Then the iterator is asked for the next
\* item: the next send is awaited, or RuntimeError leaves broadcast, or the
\* first loop ends and the second runs up to its first suspension.
BroadcastSent(ok) ==
  /\ bpc = "sending"
  /\ LET failed == IF BroadcastSendOk(bCur, ok) THEN bFailed
                   ELSE Append(bFailed, bCur)
         nxt == IterNext(active_connections)
     IN /\ bFailed' = failed
        /\ CASE nxt = "raise" ->
                  /\ bpc' = "raised"
                  /\ bCur' = 0
                  /\ UNCHANGED <<bSeen, bIdx, active_connections, connLock,
                                 smLock, dpc, dsid, sActive, pingTask>>
             [] nxt = "item" ->
                  /\ bpc' = "sending"
                  /\ \E c \in active_connections \ bSeen :
                       /\ bCur' = c
                       /\ bSeen' = bSeen \cup {c}
                  /\ UNCHANGED <<bIdx, active_connections, connLock, smLock,
                                 dpc, dsid, sActive, pingTask>>
             [] nxt = "stop" ->
                  /\ bCur' = 0
                  /\ UNCHANGED bSeen
                  /\ BroadcastRemovals(failed, 1, active_connections, streams,
                                       connLock, smLock)
  /\ UNCHANGED <<bStart, streams, cpc, accepted, closeCode, err>>
  /\ UNCHANGED <<sessVars, histVars, genVars, synVars, engVars, lockVars, downVars>>

\* The disconnect call of the second loop, woken with the connection lock.
\* When the stream is no longer registered (another caller has removed the
\* session meanwhile) the call ends in this run, and the loop goes on.
BroadcastConnLock ==
  /\ bpc = "removing"
  /\ dpc[Broadcaster] = "wait_conn_lock"
  /\ ~Locked(connLock)
  /\ IF Locked(smLock) \/ StreamRegistered(dsid[Broadcaster])
     THEN /\ RemoveStream(Broadcaster, dsid[Broadcaster])
          /\ UNCHANGED <<bpc, bIdx>>
     ELSE BroadcastRemovals(bFailed, bIdx + 1,
                            active_connections \ {dsid[Broadcaster]}, streams,
                            connLock, smLock)
  /\ UNCHANGED <<bStart, bSeen, bCur, bFailed, streams, cpc, accepted,
                 closeCode, err>>
  /\ UNCHANGED <<sessVars, histVars, genVars, synVars, engVars, lockVars, downVars>>

\* The disconnect call of the second loop ends as in DisconnectDone (both
\* maps lose the session, both locks are released), and the loop goes on in
\* the same run.
BroadcastDisconnectDone ==
  /\ bpc = "removing"
  /\ dpc[Broadcaster] = "closed"
  /\ streams' = streams \ {dsid[Broadcaster]}
  /\ BroadcastRemovals(bFailed, bIdx + 1,
                       active_connections \ {dsid[Broadcaster]},
                       streams \ {dsid[Broadcaster]}, 0, 0)
  /\ UNCHANGED <<bStart, bSeen, bCur, bFailed, cpc, accepted, closeCode, err>>
  /\ UNCHANGED <<sessVars, histVars, genVars, synVars, engVars, lockVars, downVars>>
(***************************************************************************)
(* One WSMessageHandler session                                            *)
(*                                                                         *)
(* The tasks of a session: "E" the endpoint (websocket_endpoint_handler),  *)
(* "P" the consumer (_process_messages), "K" the handler's keepalive       *)
(* (_handle_keepalive), "G" the stream's ping task (AudioStream._keep_alive)*)
(* and "S" the running synthesis task (AudioStream.stream_audio).          *)
(* self._tasks is [P, K] followed by every synthesis task ever created;    *)
(* sOut holds the synthesis tasks, the last one running while pc["S"] is   *)
(* not "none".                                                             *)
(*                                                                         *)
(* A frame is sent in the run that reaches the send; the task is then      *)
(* suspended in the send and goes on in a later run.  task.cancel() on a   *)
(* task that awaits another unfinished task cancels that one instead;      *)
(* otherwise it marks the task (cancelReq) and CancelledError is raised at *)
(* the task's await in its next run.                                       *)
(***************************************************************************)
\* The frames a client sends in one session.
MaxMsgs == 2

\* The chunks the engine produces for one request, at most.
MaxChunks == 2

\* The inbound message kinds _handle_message and _handle_synthesis tell
\* apart: "synthesize_notext" is a synthesize message without text,
\* "synthesize_badspeed" one with a text and a speed float() rejects.
Kinds == {"synthesize", "synthesize_notext", "synthesize_badspeed", "stop",
          "configure", "pong", "unknown"}

NoMsg == [id |-> 0, kind |-> "none", during |-> 0]

\* websocket.send_*: it succeeds on an open transport with the client there.
SendOkNever(w, gone) == FALSE

SendOkFor(w, gone) == w = "open" /\ ~gone

SendOk == SendOkFor(wsState, clientGone)

\* websocket.close() in AudioStream.close: errors are swallowed.
WsClosed(w) == IF w = "open" THEN "closed" ELSE w

\* asyncio.Queue.put: at the tail.
QueuePutFront(q, m) == <<m>> \o q

QueuePut(q, m) == Append(q, m)

\* The consumer is at "await self._message_queue.get()".
ConsumerReadyEarly == pc["P"] \in {"get", "await_synth"}

ConsumerReady == pc["P"] = "get"

\* "while self._active" at the top of _process_messages.
LoopTopStops(active) == "done"

LoopTop(active) == IF active THEN "get" ELSE "done"

\* _send_error on a transport that takes the frame: one error frame for
\* message id (0: a frame that was no message).
SendErrorDropped(c, id) == c

SendError(c, id) == Append(c, [msg |-> id, type |-> "error"])

\* The reply _handle_message sends for a message it handles in one run.
ReplyOfSilent(kind) ==
  IF kind \in {"pong", "unknown"} THEN "none"
  ELSE IF kind = "configure" THEN "success"
  ELSE "error"

ReplyOfNoAck(kind) ==
  IF kind \in {"pong", "configure"} THEN "none" ELSE "error"

ReplyOf(kind) ==
  IF kind = "pong" THEN "none"
  ELSE IF kind = "configure" THEN "success"
  ELSE "error"

Running(t) ==
  IF t = "P" THEN pc["P"] \in {"get", "await_synth", "stop_await_ping"}
  ELSE IF t = "K" THEN pc["K"] \in {"sleep", "cl_wait", "cl_await_ping", "cl_ws_close"}
  ELSE IF t = "G" THEN pc["G"] \in {"sleep", "closing"}
  ELSE IF t = "S" THEN pc["S"] # "none"
  ELSE FALSE

\* self._tasks, by position.
NumTasks == IF pc["P"] = "none" THEN 0 ELSE 2 + Len(sOut)

TaskName(i) ==
  IF i = 1 THEN "P"
  ELSE IF i = 2 THEN "K"
  ELSE IF sOut[i - 2].st = "run" THEN "S" ELSE "finished"

TaskFinishedNoWait(i) == TRUE

TaskFinished(i) ==
  IF i <= 2 THEN ~Running(TaskName(i)) ELSE sOut[i - 2].st # "run"

\* "await task" re-raises the exception a task ended with.
TaskFailed(i) ==
  IF i = 1 THEN FALSE
  ELSE IF i = 2 THEN pc["K"] = "failed"
  ELSE sOut[i - 2].st = "failed"

\* The task a task is suspended on, if any.
Awaited(t) ==
  IF t = "P" THEN (IF pc["P"] = "await_synth" THEN "S"
                   ELSE IF pc["P"] = "stop_await_ping" THEN "G" ELSE "none")
  ELSE IF t = "S" THEN (IF pc["S"] = "close_await_ping" THEN "G" ELSE "none")
  ELSE IF t = "K" THEN (IF pc["K"] = "cl_wait" THEN TaskName(clIdx["K"])
                        ELSE IF pc["K"] = "cl_await_ping" THEN "G" ELSE "none")
  ELSE "none"

\* Task.cancel(): a finished task is left alone; a task suspended on an
\* unfinished task hands the cancellation to that task; any other task is
\* marked.
RECURSIVE Target(_)
Target(t) ==
  IF ~Running(t) THEN "none"
  ELSE LET u == Awaited(t) IN
       IF u \notin {"none", "finished", t} /\ Running(u) THEN Target(u) ELSE t

CancelTask(cr, t) ==
  LET u == Target(t) IN IF u = "none" THEN cr ELSE [cr EXCEPT ![u] = TRUE]

\* AudioStream.close has to wait at "await self._ping_task".
PingTaskRunning == Running("G")

\* self._ping_task.cancel() in AudioStream.close.
CancelPing(cr) == CancelTask(cr, "G")

CurOp == sOut[Len(sOut)].op

(***************************************************************************)
(* The endpoint: websocket_endpoint_handler                                *)
(***************************************************************************)
\* WSMessageHandler.cleanup from the task loop on, entered at position i of
\* self._tasks by task o ("E" or "K") with pending cancellations cr: the
\* finished tasks are passed in the same run (a failed one ends cleanup with
\* its exception), the first unfinished one is cancelled and awaited.  Past
\* the last task AudioStream.close starts when there is a stream.
RECURSIVE CleanupScan(_, _)
CleanupScan(o, i) ==
  IF i > NumTasks THEN [kind |-> "end", idx |-> i]
  ELSE IF TaskName(i) = o \/ ~TaskFinished(i) THEN [kind |-> "await", idx |-> i]
  ELSE IF TaskFailed(i) THEN [kind |-> "abort", idx |-> i]
  ELSE CleanupScan(o, i + 1)

CleanupContinue(o, i, cr) ==
  LET r == CleanupScan(o, i) IN
  IF r.kind = "await"
  THEN /\ clIdx' = [clIdx EXCEPT ![o] = r.idx]
       /\ pc' = [pc EXCEPT ![o] = "cl_wait"]
       /\ cancelReq' = CancelTask(cr, TaskName(r.idx))
       /\ UNCHANGED <<sAct, wsState>>
  ELSE IF r.kind = "abort"
  THEN /\ clIdx' = [clIdx EXCEPT ![o] = 0]
       /\ pc' = [pc EXCEPT ![o] = "failed"]
       /\ cancelReq' = cr
       /\ UNCHANGED <<sAct, wsState>>
  ELSE /\ clIdx' = [clIdx EXCEPT ![o] = 0]
       /\ IF pc["G"] = "none"
          THEN /\ pc' = [pc EXCEPT ![o] = "done"]
               /\ cancelReq' = cr
               /\ UNCHANGED <<sAct, wsState>>
          ELSE /\ sAct' = FALSE
               /\ cancelReq' = CancelPing(cr)
               /\ IF PingTaskRunning
                  THEN /\ pc' = [pc EXCEPT ![o] = "cl_await_ping"]
                       /\ UNCHANGED wsState
                  ELSE /\ pc' = [pc EXCEPT ![o] = "cl_ws_close"]
                       /\ wsState' = WsClosed(wsState)

\* handler.initialize(): websocket.accept() returns.  The stream is
\* registered, its ping task and the handler's two tasks are started, and
\* the endpoint waits in receive_json.
EAccepted ==
  /\ pc["E"] = "accepting"
  /\ wsState' = "open"
  /\ registered' = TRUE
  /\ pc' = [pc EXCEPT !["E"] = "recv", !["P"] = "get", !["K"] = "sleep", !["G"] = "sleep"]
  /\ UNCHANGED <<clientGone, hActive, sAct, streamLock, queue, nRecv, clIdx,
                 cancelReq, sOut, chunkIdx, cur, histVars>>
  /\ UNCHANGED <<regVars, bcVars, genVars, synVars, engVars, lockVars, downVars>>

\* websocket.accept() raises: initialize raises WebSocketError, the endpoint
\* logs it and "finally" runs cleanup with no stream and no tasks.
EAcceptFailed ==
  /\ pc["E"] = "accepting"
  /\ acceptFailed' = TRUE
  /\ hActive' = FALSE
  /\ CleanupContinue("E", 1, cancelReq)
  /\ UNCHANGED <<clientGone, streamLock, registered, queue, nRecv, sOut,
                 chunkIdx, cur, handledSeq, finishedSeq, sent, ctl, kaTimeout>>
  /\ UNCHANGED <<regVars, bcVars, genVars, synVars, engVars, lockVars, downVars>>

\* receive_json returns a message: handle_incoming_message puts it into the
\* queue.  "during" notes, for a stop, the streaming operation in progress
\* at that time.
EReceive(kind) ==
  /\ pc["E"] = "recv"
  /\ SendOk
  /\ nRecv < MaxMsgs
  /\ nRecv' = nRecv + 1
  /\ queue' = QueuePut(queue, [id |-> nRecv + 1, kind |-> kind,
                               during |-> IF kind = "stop" /\ pc["S"] # "none"
                                          THEN CurOp ELSE 0])
  /\ UNCHANGED <<wsState, clientGone, hActive, sAct, streamLock, registered,
                 pc, clIdx, cancelReq, sOut, chunkIdx, cur, histVars>>
  /\ UNCHANGED <<regVars, bcVars, genVars, synVars, engVars, lockVars, downVars>>

\* receive_json raises JSONDecodeError: _send_error("Invalid JSON message"),
\* and the loop goes on.
EReceiveInvalidJson ==
  /\ pc["E"] = "recv"
  /\ SendOk
  /\ nRecv < MaxMsgs
  /\ nRecv' = nRecv + 1
  /\ ctl' = SendError(ctl, 0)
  /\ UNCHANGED <<wsState, clientGone, hActive, sAct, streamLock, registered,
                 queue, pc, clIdx, cancelReq, sOut, chunkIdx, cur, handledSeq,
                 finishedSeq, sent, kaTimeout, acceptFailed>>
  /\ UNCHANGED <<regVars, bcVars, genVars, synVars, engVars, lockVars, downVars>>

\* The client goes away.
ClientDisconnect ==
  /\ wsState = "open"
  /\ ~clientGone
  /\ clientGone' = TRUE
  /\ UNCHANGED <<wsState, hActive, sAct, streamLock, registered, queue, nRecv,
                 pc, clIdx, cancelReq, sOut, chunkIdx, cur, histVars>>
  /\ UNCHANGED <<regVars, bcVars, genVars, synVars, engVars, lockVars, downVars>>

\* receive_json raises WebSocketDisconnect (the client is gone) or another
\* exception (the server has closed the websocket): the loop is left and
\* "finally" runs cleanup: self._active = False, then the task loop.
EReceiveFailed ==
  /\ pc["E"] = "recv"
  /\ ~SendOk
  /\ hActive' = FALSE
  /\ CleanupContinue("E", 1, cancelReq)
  /\ UNCHANGED <<clientGone, streamLock, registered, queue, nRecv, sOut,
                 chunkIdx, cur, histVars>>
  /\ UNCHANGED <<regVars, bcVars, genVars, synVars, engVars, lockVars, downVars>>

(***************************************************************************)
(* WSMessageHandler.cleanup, run by the endpoint or by the keepalive task  *)
(***************************************************************************)
\* "await task" returns in cleanup's loop: CancelledError (the task was
\* cancelled, or the awaiting task itself was) is swallowed, any other
\* exception of the task ends cleanup.
CleanupResume(o) ==
  /\ pc[o] = "cl_wait"
  /\ TaskName(clIdx[o]) = o \/ TaskFinished(clIdx[o])
  /\ IF ~cancelReq[o] /\ TaskName(clIdx[o]) # o /\ TaskFailed(clIdx[o])
     THEN /\ pc' = [pc EXCEPT ![o] = "failed"]
          /\ clIdx' = [clIdx EXCEPT ![o] = 0]
          /\ UNCHANGED <<cancelReq, sAct, wsState>>
     ELSE CleanupContinue(o, clIdx[o] + 1, [cancelReq EXCEPT ![o] = FALSE])
  /\ UNCHANGED <<clientGone, hActive, streamLock, registered, queue, nRecv,
                 sOut, chunkIdx, cur, histVars>>
  /\ UNCHANGED <<regVars, bcVars, genVars, synVars, engVars, lockVars, downVars>>

\* AudioStream.close in cleanup: the ping task has ended; websocket.close().
CleanupPingEnded(o) ==
  /\ pc[o] = "cl_await_ping"
  /\ ~PingTaskRunning
  /\ wsState' = WsClosed(wsState)
  /\ pc' = [pc EXCEPT ![o] = "cl_ws_close"]
  /\ cancelReq' = [cancelReq EXCEPT ![o] = FALSE]
  /\ UNCHANGED <<clientGone, hActive, sAct, streamLock, registered, queue,
                 nRecv, clIdx, sOut, chunkIdx, cur, histVars>>
  /\ UNCHANGED <<regVars, bcVars, genVars, synVars, engVars, lockVars, downVars>>

\* websocket.close() has returned; ws_manager.disconnect(self.session_id)
\* finds no entry under the handler's own id and changes nothing.
CleanupDone(o) ==
  /\ pc[o] = "cl_ws_close"
  /\ ~cancelReq[o]
  /\ pc' = [pc EXCEPT ![o] = "done"]
  /\ UNCHANGED <<wsState, clientGone, hActive, sAct, streamLock, registered,
                 queue, nRecv, clIdx, cancelReq, sOut, chunkIdx, cur, histVars>>
  /\ UNCHANGED <<regVars, bcVars, genVars, synVars, engVars, lockVars, downVars>>

(***************************************************************************)
(* The handler's keepalive: WSMessageHandler._handle_keepalive             *)
(***************************************************************************)
\* asyncio.sleep(WS_PING_INTERVAL) is over and send_json({"type": "ping"})
\* returns: the task is back in the sleep of its next turn, and nothing of
\* the handler or the stream has been written.
KPing ==
  /\ pc["K"] = "sleep"
  /\ ~cancelReq["K"]
  /\ SendOk
  /\ hActive
  /\ UNCHANGED <<sessVars, histVars>>
  /\ UNCHANGED <<regVars, bcVars, genVars, synVars, engVars, lockVars, downVars>>

\* send_json({"type": "ping"}) raises: cleanup.
KPingFailed ==
  /\ pc["K"] = "sleep"
  /\ ~cancelReq["K"]
  /\ ~SendOk
  /\ hActive' = FALSE
  /\ CleanupContinue("K", 1, cancelReq)
  /\ UNCHANGED <<clientGone, streamLock, registered, queue, nRecv, sOut,
                 chunkIdx, cur, histVars>>
  /\ UNCHANGED <<regVars, bcVars, genVars, synVars, engVars, lockVars, downVars>>

\* CancelledError in asyncio.sleep or send_json, or in websocket.close()
\* at the end of cleanup: nothing catches it.
KCancelled ==
  /\ pc["K"] \in {"sleep", "cl_ws_close"}
  /\ cancelReq["K"]
  /\ pc' = [pc EXCEPT !["K"] = "cancelled"]
  /\ cancelReq' = [cancelReq EXCEPT !["K"] = FALSE]
  /\ UNCHANGED <<wsState, clientGone, hActive, sAct, streamLock, registered,
                 queue, nRecv, clIdx, sOut, chunkIdx, cur, histVars>>
  /\ UNCHANGED <<regVars, bcVars, genVars, synVars, engVars, lockVars, downVars>>

(***************************************************************************)
(* The stream's ping task: AudioStream._keep_alive                         *)
(***************************************************************************)
\* The ping times out or raises: close() starts with self._active = False.
\* The task cancels and awaits itself in close(); that CancelledError is
\* swallowed one run later, before websocket.close().
GPingFailed ==
  /\ pc["G"] = "sleep"
  /\ ~cancelReq["G"]
  /\ kaTimeout' = TRUE
  /\ sAct' = FALSE
  /\ pc' = [pc EXCEPT !["G"] = "closing"]
  /\ UNCHANGED <<wsState, clientGone, hActive, streamLock, registered, queue,
                 nRecv, clIdx, cancelReq, sOut, chunkIdx, cur, handledSeq,
                 finishedSeq, sent, ctl, acceptFailed>>
  /\ UNCHANGED <<regVars, bcVars, genVars, synVars, engVars, lockVars, downVars>>

\* close() in the ping task: websocket.close(), and the task ends.
GClose ==
  /\ pc["G"] = "closing"
  /\ wsState' = WsClosed(wsState)
  /\ pc' = [pc EXCEPT !["G"] = "done"]
  /\ cancelReq' = [cancelReq EXCEPT !["G"] = FALSE]
  /\ UNCHANGED <<clientGone, hActive, sAct, streamLock, registered, queue,
                 nRecv, clIdx, sOut, chunkIdx, cur, histVars>>
  /\ UNCHANGED <<regVars, bcVars, genVars, synVars, engVars, lockVars, downVars>>

GCancelled ==
  /\ pc["G"] = "sleep"
  /\ cancelReq["G"]
  /\ pc' = [pc EXCEPT !["G"] = "cancelled"]
  /\ cancelReq' = [cancelReq EXCEPT !["G"] = FALSE]
  /\ UNCHANGED <<wsState, clientGone, hActive, sAct, streamLock, registered,
                 queue, nRecv, clIdx, sOut, chunkIdx, cur, histVars>>
  /\ UNCHANGED <<regVars, bcVars, genVars, synVars, engVars, lockVars, downVars>>

(***************************************************************************)
(* The consumer: _process_messages, _handle_message and its handlers       *)
(***************************************************************************)
\* A message handled in one run: "pong" (nothing), "configure"
\* (_send_success), an unknown type or a synthesize without text
\* (_send_error), a synthesize whose speed makes float() raise (ValueError,
\* caught in _handle_synthesis: _send_error("Synthesis failed")).  A send
\* that raises is logged by _send_error/_send_success.
PHandleSimple ==
  /\ ConsumerReady
  /\ ~cancelReq["P"]
  /\ queue # <<>>
  /\ Head(queue).kind \in {"pong", "configure", "unknown", "synthesize_notext",
                         "synthesize_badspeed"}
  /\ queue' = Tail(queue)
  /\ handledSeq' = Append(handledSeq, Head(queue).id)
  /\ finishedSeq' = Append(finishedSeq, Head(queue).id)
  /\ ctl' = IF ReplyOf(Head(queue).kind) # "none" /\ SendOk
            THEN Append(ctl, [msg |-> Head(queue).id, type |-> ReplyOf(Head(queue).kind)])
            ELSE ctl
  /\ pc' = [pc EXCEPT !["P"] = LoopTop(hActive)]
  /\ UNCHANGED <<wsState, clientGone, hActive, sAct, streamLock, registered,
                 nRecv, clIdx, cancelReq, sOut, chunkIdx, cur, sent, kaTimeout,
                 acceptFailed>>
  /\ UNCHANGED <<regVars, bcVars, genVars, synVars, engVars, lockVars, downVars>>

\* The end of _handle_stop after stream.close() has closed the websocket:
\* _send_success("Streaming stopped") on the transport as close() left it.
StopReply(m, w) ==
  IF SendOkFor(w, clientGone) THEN Append(ctl, [msg |-> m.id, type |-> "success"]) ELSE ctl

\* _handle_stop: await self.stream.close(), which sets the stream's _active
\* to False, cancels and awaits the ping task and closes the websocket; then
\* _send_success.
PHandleStop ==
  /\ ConsumerReady
  /\ ~cancelReq["P"]
  /\ queue # <<>>
  /\ Head(queue).kind = "stop"
  /\ queue' = Tail(queue)
  /\ handledSeq' = Append(handledSeq, Head(queue).id)
  /\ sAct' = FALSE
  /\ cancelReq' = CancelPing(cancelReq)
  /\ IF PingTaskRunning
     THEN /\ pc' = [pc EXCEPT !["P"] = "stop_await_ping"]
          /\ cur' = Head(queue)
          /\ UNCHANGED <<wsState, finishedSeq, ctl>>
     ELSE /\ wsState' = WsClosed(wsState)
          /\ ctl' = StopReply(Head(queue), WsClosed(wsState))
          /\ finishedSeq' = Append(finishedSeq, Head(queue).id)
          /\ pc' = [pc EXCEPT !["P"] = LoopTop(hActive)]
          /\ UNCHANGED cur
  /\ UNCHANGED <<clientGone, hActive, streamLock, registered, nRecv, clIdx,
                 sOut, chunkIdx, sent, kaTimeout, acceptFailed>>
  /\ UNCHANGED <<regVars, bcVars, genVars, synVars, engVars, lockVars, downVars>>

\* close() in _handle_stop goes on once the ping task has ended (the
\* CancelledError at "await self._ping_task" is swallowed, the consumer's
\* own cancellation with it).
PStopPingEnded ==
  /\ pc["P"] = "stop_await_ping"
  /\ ~PingTaskRunning
  /\ wsState' = WsClosed(wsState)
  /\ ctl' = StopReply(cur, WsClosed(wsState))
  /\ finishedSeq' = Append(finishedSeq, cur.id)
  /\ cur' = NoMsg
  /\ cancelReq' = [cancelReq EXCEPT !["P"] = FALSE]
  /\ pc' = [pc EXCEPT !["P"] = LoopTop(hActive)]
  /\ UNCHANGED <<clientGone, hActive, sAct, streamLock, registered, queue,
                 nRecv, clIdx, sOut, chunkIdx, handledSeq, sent, kaTimeout,
                 acceptFailed>>
  /\ UNCHANGED <<regVars, bcVars, genVars, synVars, engVars, lockVars, downVars>>

\* _handle_synthesis with a text: the synthesis task is created, appended to
\* self._tasks and awaited.
PHandleSynthesize ==
  /\ ConsumerReady
  /\ ~cancelReq["P"]
  /\ queue # <<>>
  /\ Head(queue).kind = "synthesize"
  /\ queue' = Tail(queue)
  /\ handledSeq' = Append(handledSeq, Head(queue).id)
  /\ cur' = Head(queue)
  /\ sOut' = Append(sOut, [op |-> Head(queue).id, st |-> "run", n |-> -1, cause |-> "none"])
  /\ pc' = [pc EXCEPT !["P"] = "await_synth", !["S"] = "start"]
  /\ UNCHANGED <<wsState, clientGone, hActive, sAct, streamLock, registered,
                 nRecv, clIdx, cancelReq, chunkIdx, finishedSeq, sent, ctl,
                 kaTimeout, acceptFailed>>
  /\ UNCHANGED <<regVars, bcVars, genVars, synVars, engVars, lockVars, downVars>>

\* "await synthesis_task" returns: normally; with the task's WebSocketError,
\* which _handle_synthesis answers with _send_error("Synthesis failed"); or
\* with CancelledError, which nothing catches.
PSynthDone ==
  /\ pc["P"] = "await_synth"
  /\ pc["S"] = "none"
  /\ finishedSeq' = Append(finishedSeq, cur.id)
  /\ cur' = NoMsg
  /\ cancelReq' = [cancelReq EXCEPT !["P"] = FALSE]
  /\ IF cancelReq["P"] \/ sOut[Len(sOut)].st = "cancelled"
     THEN /\ pc' = [pc EXCEPT !["P"] = "cancelled"]
          /\ UNCHANGED ctl
     ELSE /\ pc' = [pc EXCEPT !["P"] = LoopTop(hActive)]
          /\ ctl' = IF sOut[Len(sOut)].st = "failed" /\ SendOk
                    THEN SendError(ctl, cur.id)
                    ELSE ctl
  /\ UNCHANGED <<wsState, clientGone, hActive, sAct, streamLock, registered,
                 queue, nRecv, clIdx, sOut, chunkIdx, handledSeq, sent,
                 kaTimeout, acceptFailed>>
  /\ UNCHANGED <<regVars, bcVars, genVars, synVars, engVars, lockVars, downVars>>

\* CancelledError at "await self._message_queue.get()".
PCancelled ==
  /\ pc["P"] = "get"
  /\ cancelReq["P"]
  /\ pc' = [pc EXCEPT !["P"] = "cancelled"]
  /\ cancelReq' = [cancelReq EXCEPT !["P"] = FALSE]
  /\ UNCHANGED <<wsState, clientGone, hActive, sAct, streamLock, registered,
                 queue, nRecv, clIdx, sOut, chunkIdx, cur, histVars>>
  /\ UNCHANGED <<regVars, bcVars, genVars, synVars, engVars, lockVars, downVars>>

(***************************************************************************)
(* The synthesis task: AudioStream.stream_audio                            *)
(***************************************************************************)
\* The generator is exhausted after k of its n chunks.
ExhaustedEarly(k, n) == k + 1 >= n

Exhausted(k, n) == k >= n

\* Leaving "async with self._lock" by a return, by an exception or by
\* CancelledError: __aexit__ releases the lock each time, so the lock is
\* not held afterwards.
HeldUnlessReturned(how) == how # "return"

HeldAfterExit(how) == FALSE

\* stream_audio returns: the lock is released and the task ends.
SReturn(n) ==
  /\ sOut' = [sOut EXCEPT ![Len(sOut)].st = "ok", ![Len(sOut)].n = n]
  /\ pc' = [pc EXCEPT !["S"] = "none"]
  /\ streamLock' = HeldAfterExit("return")
  /\ chunkIdx' = 0
  /\ UNCHANGED <<sent, sAct, cancelReq, wsState>>

\* An exception inside "async with self._lock": the lock is released, and
\* the handler calls close() before it raises WebSocketError.
SFail(n, cause) ==
  /\ sOut' = [sOut EXCEPT ![Len(sOut)].n = n, ![Len(sOut)].cause = cause]
  /\ streamLock' = HeldAfterExit("raise")
  /\ chunkIdx' = 0
  /\ sAct' = FALSE
  /\ cancelReq' = CancelPing(cancelReq)
  /\ IF PingTaskRunning
     THEN /\ pc' = [pc EXCEPT !["S"] = "close_await_ping"]
          /\ UNCHANGED wsState
     ELSE /\ pc' = [pc EXCEPT !["S"] = "close_ws"]
          /\ wsState' = WsClosed(wsState)
  /\ UNCHANGED sent

\* websocket.send_bytes(chunk) / send_json({"type": "end"}), k = 0 for the
\* end marker.
SSend(n, k, idx, at) ==
  /\ sent' = Append(sent, [op |-> CurOp, k |-> k])
  /\ sOut' = [sOut EXCEPT ![Len(sOut)].n = n]
  /\ chunkIdx' = idx
  /\ pc' = [pc EXCEPT !["S"] = at]
  /\ UNCHANGED <<streamLock, sAct, cancelReq, wsState>>

\* "if not self._active: break" before a chunk, "if self._active" before
\* the end marker.
MaySendAlways(active) == TRUE

MaySend(active) == active

\* One turn of "async for chunk in generate_speech_stream(...)" with k of
\* the n chunks sent, and the end marker after the last.
StreamStep(k, n) ==
  IF ~Exhausted(k, n)
  THEN IF ~MaySend(sAct) THEN SReturn(n)
       ELSE IF SendOk THEN SSend(n, k + 1, k + 1, "sending")
       ELSE SFail(n, "send")
  ELSE IF ~MaySend(sAct) THEN SReturn(n)
       ELSE IF SendOk THEN SSend(n, 0, k, "sending_end")
       ELSE SFail(n, "send")

\* The task starts: "async with self._lock", then generate_speech, which
\* waits for the engine.
SStart ==
  /\ pc["S"] = "start"
  /\ ~cancelReq["S"]
  /\ ~streamLock
  /\ streamLock' = TRUE
  /\ pc' = [pc EXCEPT !["S"] = "engine"]
  /\ UNCHANGED <<wsState, clientGone, hActive, sAct, registered, queue, nRecv,
                 clIdx, cancelReq, sOut, chunkIdx, cur, histVars>>
  /\ UNCHANGED <<regVars, bcVars, genVars, synVars, engVars, lockVars, downVars>>

\* The engine returns a waveform of n chunks; the first turn of the loop.
SEngine(n) ==
  /\ pc["S"] = "engine"
  /\ ~cancelReq["S"]
  /\ StreamStep(0, n)
  /\ UNCHANGED <<clientGone, hActive, registered, queue, nRecv, clIdx, cur,
                 handledSeq, finishedSeq, ctl, kaTimeout, acceptFailed>>
  /\ UNCHANGED <<regVars, bcVars, genVars, synVars, engVars, lockVars, downVars>>

\* The engine raises (ModelError).
SEngineFailed ==
  /\ pc["S"] = "engine"
  /\ ~cancelReq["S"]
  /\ SFail(-1, "engine")
  /\ UNCHANGED <<clientGone, hActive, registered, queue, nRecv, clIdx, cur,
                 handledSeq, finishedSeq, ctl, kaTimeout, acceptFailed>>
  /\ UNCHANGED <<regVars, bcVars, genVars, synVars, engVars, lockVars, downVars>>

\* send_bytes has returned: the next turn of the loop.
SNext ==
  /\ pc["S"] = "sending"
  /\ ~cancelReq["S"]
  /\ StreamStep(chunkIdx, sOut[Len(sOut)].n)
  /\ UNCHANGED <<clientGone, hActive, registered, queue, nRecv, clIdx, cur,
                 handledSeq, finishedSeq, ctl, kaTimeout, acceptFailed>>
  /\ UNCHANGED <<regVars, bcVars, genVars, synVars, engVars, lockVars, downVars>>

\* send_json({"type": "end"}) has returned.
SEndSent ==
  /\ pc["S"] = "sending_end"
  /\ ~cancelReq["S"]
  /\ SReturn(sOut[Len(sOut)].n)
  /\ UNCHANGED <<clientGone, hActive, registered, queue, nRecv, clIdx, cur,
                 handledSeq, finishedSeq, ctl, kaTimeout, acceptFailed>>
  /\ UNCHANGED <<regVars, bcVars, genVars, synVars, engVars, lockVars, downVars>>

\* close() in stream_audio's handler goes on once the ping task has ended.
SClosePingEnded ==
  /\ pc["S"] = "close_await_ping"
  /\ ~PingTaskRunning
  /\ wsState' = WsClosed(wsState)
  /\ pc' = [pc EXCEPT !["S"] = "close_ws"]
  /\ cancelReq' = [cancelReq EXCEPT !["S"] = FALSE]
  /\ UNCHANGED <<clientGone, hActive, sAct, streamLock, registered, queue,
                 nRecv, clIdx, sOut, chunkIdx, cur, histVars>>
  /\ UNCHANGED <<regVars, bcVars, genVars, synVars, engVars, lockVars, downVars>>

\* close() has returned: raise WebSocketError("Audio streaming failed").
SCloseDone ==
  /\ pc["S"] = "close_ws"
  /\ ~cancelReq["S"]
  /\ sOut' = [sOut EXCEPT ![Len(sOut)].st = "failed"]
  /\ pc' = [pc EXCEPT !["S"] = "none"]
  /\ UNCHANGED <<wsState, clientGone, hActive, sAct, streamLock, registered,
                 queue, nRecv, clIdx, cancelReq, chunkIdx, cur, histVars>>
  /\ UNCHANGED <<regVars, bcVars, genVars, synVars, engVars, lockVars, downVars>>

\* CancelledError at an await of the task other than close()'s await of the
\* ping task: nothing catches it, "async with" releases the lock.
SCancelled ==
  /\ pc["S"] \in {"start", "engine", "sending", "sending_end", "close_ws"}
  /\ cancelReq["S"]
  /\ sOut' = [sOut EXCEPT ![Len(sOut)].st = "cancelled"]
  /\ pc' = [pc EXCEPT !["S"] = "none"]
  /\ cancelReq' = [cancelReq EXCEPT !["S"] = FALSE]
  /\ streamLock' = IF pc["S"] \in {"engine", "sending", "sending_end"}
                   THEN HeldAfterExit("cancel") ELSE streamLock
  /\ chunkIdx' = 0
  /\ UNCHANGED <<wsState, clientGone, hActive, sAct, registered, queue, nRecv,
                 clIdx, cur, histVars>>
  /\ UNCHANGED <<regVars, bcVars, genVars, synVars, engVars, lockVars, downVars>>

SessionStart ==
  /\ wsState = "connecting"
  /\ clientGone = FALSE
  /\ hActive = TRUE
  /\ sAct = TRUE
  /\ streamLock = FALSE
  /\ registered = FALSE
  /\ queue = <<>>
  /\ nRecv = 0
  /\ pc = [t \in {"E", "P", "K", "G", "S"} |->
             IF t = "E" THEN "accepting" ELSE "none"]
  /\ clIdx = [o \in {"E", "K"} |-> 0]
  /\ cancelReq = [t \in {"E", "P", "K", "G", "S"} |-> FALSE]
  /\ sOut = <<>>
  /\ chunkIdx = 0
  /\ cur = NoMsg
  /\ handledSeq = <<>>
  /\ finishedSeq = <<>>
  /\ sent = <<>>
  /\ ctl = <<>>
  /\ kaTimeout = FALSE
  /\ acceptFailed = FALSE

SessionNext ==
  \/ EAccepted
  \/ EAcceptFailed
  \/ \E kind \in Kinds : EReceive(kind)
  \/ EReceiveInvalidJson
  \/ ClientDisconnect
  \/ EReceiveFailed
  \/ \E o \in {"E", "K"} : CleanupResume(o)
  \/ \E o \in {"E", "K"} : CleanupPingEnded(o)
  \/ \E o \in {"E", "K"} : CleanupDone(o)
  \/ KPing
  \/ KPingFailed
  \/ KCancelled
  \/ GPingFailed
  \/ GClose
  \/ GCancelled
  \/ PHandleSimple
  \/ PHandleStop
  \/ PStopPingEnded
  \/ PHandleSynthesize
  \/ PSynthDone
  \/ PCancelled
  \/ SStart
  \/ \E n \in 0 .. MaxChunks : SEngine(n)
  \/ SEngineFailed
  \/ SNext
  \/ SEndSent
  \/ SClosePingEnded
  \/ SCloseDone
  \/ SCancelled


(***************************************************************************)
(* TTSModel: the engine singleton and the calls into it                    *)
(*                                                                         *)
(* The callers are tasks: TTSModel.initialize (lifespan, the startup       *)
(* event, get_tts); TTSModel.generate_speech called for itself (the HTTP   *)
(* route); AudioStream.stream_audio, which takes the session's synthesis   *)
(* lock and runs generate_speech_stream and, inside it, generate_speech;   *)
(* and TTSModel.voice_conversion.  Task t streams on a session of its own. *)
(* The engine call runs in a worker thread (asyncio.to_thread) while its   *)
(* task is suspended inside "async with self._lock".                       *)
(***************************************************************************)
\* The tasks that call into the engine.
NumEngineTasks == 2

EngineTasks == 1 .. NumEngineTasks

\* The number of engine constructions the model counts up to.
MaxBuilds == 2

\* The engine calls left running by cancelled tasks the model counts up to.
MaxAbandoned == 1

NoCall == [kind |-> "none", pc |-> "idle", out |-> "none", yielded |-> FALSE,
           synth |-> FALSE]

\* "if self._initialized: return" in initialize, before the lock and again
\* under it.
AlreadyInitializedNever(init) == FALSE

AlreadyInitialized(init) == init

\* _ensure_initialized: it raises ModelError("TTS model not initialized")
\* unless self._initialized.
EnsureInitializedPasses(init) == "ok"

EnsureInitialized(init) == IF init THEN "ok" ELSE "raise"

\* asyncio.Lock.acquire on TTSModel._lock: the lock is taken in the same
\* run when it is free and nobody waits for it; otherwise the task joins
\* the waiters, which get the lock in their order.
EngineLockFree == engineLock = 0 /\ engineWaiters = << >>

\* The engine calls in progress in worker threads: those whose task is
\* suspended in "await asyncio.to_thread(...)" and those whose task has
\* been cancelled there.
EngineCallsInProgress ==
  Cardinality({t \in EngineTasks : task[t].pc = "in_engine"}) + abandoned

\* The body of initialize under the lock, in one run (nothing in it
\* awaits): the second test of self._initialized, then
\* "self._model = TTS(...).to(self._device)", which succeeds (ok) or raises;
\* "async with" releases the lock either way, and the exception is turned
\* into ModelError("Failed to initialize TTS model").
Construct(t, call, ok) ==
  /\ engineLock' = 0
  /\ IF AlreadyInitialized(initialized)
     THEN /\ task' = [task EXCEPT ![t] = [call EXCEPT !.pc = "idle", !.out = "returned"]]
          /\ UNCHANGED <<initialized, built>>
     ELSE IF ok
     THEN /\ built < MaxBuilds
          /\ built' = built + 1
          /\ initialized' = TRUE
          /\ task' = [task EXCEPT ![t] = [call EXCEPT !.pc = "idle", !.out = "returned"]]
     ELSE /\ task' = [task EXCEPT ![t] = [call EXCEPT !.pc = "idle", !.out = "ModelError"]]
          /\ UNCHANGED <<initialized, built>>

\* "async with self._lock" reached by task t, whose call is call; with the
\* lock the task starts the engine call in a worker thread and waits for it.
AcquireEngineLock(t, call) ==
  IF EngineLockFree
  THEN /\ engineLock' = t
       /\ task' = [task EXCEPT ![t] = [call EXCEPT !.pc = "in_engine"]]
       /\ UNCHANGED engineWaiters
  ELSE /\ engineWaiters' = Append(engineWaiters, t)
       /\ task' = [task EXCEPT ![t] = [call EXCEPT !.pc = "wait_lock"]]
       /\ UNCHANGED engineLock

\* TTSModel.initialize is called by task t.
initialize(t, ok) ==
  /\ task[t].pc = "idle"
  /\ LET call == [NoCall EXCEPT !.kind = "initialize"]
     IN IF AlreadyInitialized(initialized)
        THEN /\ task' = [task EXCEPT ![t] = [call EXCEPT !.out = "returned"]]
             /\ UNCHANGED <<initialized, built, engineLock, engineWaiters>>
        ELSE IF EngineLockFree
        THEN /\ Construct(t, call, ok)
             /\ UNCHANGED engineWaiters
        ELSE /\ AcquireEngineLock(t, call)
             /\ UNCHANGED <<initialized, built>>
  /\ UNCHANGED abandoned
  /\ UNCHANGED <<regVars, sessVars, histVars, bcVars, genVars, synVars, lockVars, downVars>>

\* A call that starts with _ensure_initialized and then runs the engine
\* under the lock: ModelError leaves it at once while the engine is not
\* initialized, with the lock and the engine untouched.  stream_audio holds
\* the session's synthesis lock around it (call.synth) and gives it back
\* when the error leaves "async with self._lock"; its handler then closes
\* the stream and raises WebSocketError.
EngineCall(t, call) ==
  IF EnsureInitialized(initialized) = "raise"
  THEN /\ task' = [task EXCEPT ![t] =
                     [call EXCEPT !.out = "ModelError_not_initialized",
                                  !.synth = FALSE]]
       /\ UNCHANGED <<engineLock, engineWaiters>>
  ELSE AcquireEngineLock(t, call)

\* TTSModel.generate_speech called for itself (generate_audio_chunks of the
\* HTTP route).
generate_speech(t) ==
  /\ task[t].pc = "idle"
  /\ EngineCall(t, [NoCall EXCEPT !.kind = "generate_speech"])
  /\ UNCHANGED <<initialized, built, abandoned>>
  /\ UNCHANGED <<regVars, sessVars, histVars, bcVars, genVars, synVars, lockVars, downVars>>

\* TTSModel.voice_conversion.
voice_conversion(t) ==
  /\ task[t].pc = "idle"
  /\ EngineCall(t, [NoCall EXCEPT !.kind = "voice_conversion"])
  /\ UNCHANGED <<initialized, built, abandoned>>
  /\ UNCHANGED <<regVars, sessVars, histVars, bcVars, genVars, synVars, lockVars, downVars>>

\* AudioStream.stream_audio: "async with self._lock" (the synthesis lock of
\* the task's session, which is free: a session runs one synthesis task at
\* a time), then the first item of generate_speech_stream is asked for,
\* which runs _ensure_initialized and generate_speech.
stream_audio(t) ==
  /\ task[t].pc = "idle"
  /\ EngineCall(t, [NoCall EXCEPT !.kind = "stream_audio", !.synth = TRUE])
  /\ UNCHANGED <<initialized, built, abandoned>>
  /\ UNCHANGED <<regVars, sessVars, histVars, bcVars, genVars, synVars, lockVars, downVars>>

\* A waiting task is given the lock.
EngineLockAcquired(t, ok) ==
  /\ task[t].pc = "wait_lock"
  /\ engineLock = 0
  /\ engineWaiters # << >>
  /\ Head(engineWaiters) = t
  /\ engineWaiters' = Tail(engineWaiters)
  /\ IF task[t].kind = "initialize"
     THEN Construct(t, task[t], ok)
     ELSE /\ engineLock' = t
          /\ task' = [task EXCEPT ![t].pc = "in_engine"]
          /\ UNCHANGED <<initialized, built>>
  /\ UNCHANGED abandoned
  /\ UNCHANGED <<regVars, sessVars, histVars, bcVars, genVars, synVars, lockVars, downVars>>

\* The engine call of task t comes back from its thread with a waveform
\* (ok) or with an exception: "async with" releases the lock, and an
\* exception is turned into ModelError.  generate_speech_stream goes on to
\* yield its first chunk, which stream_audio sends; a failure leaves
\* stream_audio's "async with" too.
EngineReturns(t, ok) ==
  /\ task[t].pc = "in_engine"
  /\ engineLock' = 0
  /\ task' = [task EXCEPT ![t] =
       IF ~ok THEN [@ EXCEPT !.pc = "idle", !.out = "ModelError", !.synth = FALSE]
       ELSE IF @.kind = "stream_audio"
            THEN [@ EXCEPT !.pc = "streaming", !.yielded = TRUE]
            ELSE [@ EXCEPT !.pc = "idle", !.out = "returned"]]
  /\ UNCHANGED <<initialized, built, engineWaiters, abandoned>>
  /\ UNCHANGED <<regVars, sessVars, histVars, bcVars, genVars, synVars, lockVars, downVars>>

\* stream_audio has sent the chunks and the end marker: it leaves
\* "async with self._lock" and returns.
StreamAudioReturns(t) ==
  /\ task[t].pc = "streaming"
  /\ task' = [task EXCEPT ![t].pc = "idle", ![t].out = "returned",
                          ![t].synth = FALSE]
  /\ UNCHANGED <<initialized, built, engineLock, engineWaiters, abandoned>>
  /\ UNCHANGED <<regVars, sessVars, histVars, bcVars, genVars, synVars, lockVars, downVars>>

\* engineWaiters without task t.
WithoutWaiter(q, t) == SelectSeq(q, LAMBDA u : u # t)

\* The synthesis task is cancelled (task.cancel() in
\* WSMessageHandler.cleanup): CancelledError is raised at its await, and
\* each "async with" it leaves releases its lock.  A task waiting for the
\* engine lock leaves the waiters.  A task waiting for the engine call
\* gives the engine lock back, while the call goes on in its thread: a
\* thread started by asyncio.to_thread is not stopped by cancelling the
\* task that awaits it.
StreamAudioCancelled(t) ==
  /\ task[t].kind = "stream_audio"
  /\ task[t].pc \in {"wait_lock", "in_engine", "streaming"}
  /\ task' = [task EXCEPT ![t].pc = "idle", ![t].out = "cancelled",
                          ![t].synth = FALSE]
  /\ CASE task[t].pc = "wait_lock" ->
            /\ engineWaiters' = WithoutWaiter(engineWaiters, t)
            /\ UNCHANGED <<engineLock, abandoned>>
       [] task[t].pc = "in_engine" ->
            /\ abandoned < MaxAbandoned
            /\ abandoned' = abandoned + 1
            /\ engineLock' = 0
            /\ UNCHANGED engineWaiters
       [] OTHER -> UNCHANGED <<engineLock, engineWaiters, abandoned>>
  /\ UNCHANGED <<initialized, built>>
  /\ UNCHANGED <<regVars, sessVars, histVars, bcVars, genVars, synVars, lockVars, downVars>>

\* An engine call whose task was cancelled ends in its thread.
AbandonedCallEnds ==
  /\ abandoned > 0
  /\ abandoned' = abandoned - 1
  /\ UNCHANGED <<initialized, built, engineLock, engineWaiters, task>>
  /\ UNCHANGED <<regVars, sessVars, histVars, bcVars, genVars, synVars, lockVars, downVars>>

\* TTSModel.__init__, and no call made.
EngineStart ==
  /\ initialized = FALSE
  /\ built = 0
  /\ engineLock = 0
  /\ engineWaiters = << >>
  /\ abandoned = 0
  /\ task = [t \in EngineTasks |-> NoCall]

EngineNext ==
  \/ \E t \in EngineTasks, ok \in BOOLEAN : initialize(t, ok)
  \/ \E t \in EngineTasks : generate_speech(t)
  \/ \E t \in EngineTasks : voice_conversion(t)
  \/ \E t \in EngineTasks : stream_audio(t)
  \/ \E t \in EngineTasks, ok \in BOOLEAN : EngineLockAcquired(t, ok)
  \/ \E t \in EngineTasks, ok \in BOOLEAN : EngineReturns(t, ok)
  \/ \E t \in EngineTasks : StreamAudioReturns(t)
  \/ \E t \in EngineTasks : StreamAudioCancelled(t)
  \/ AbandonedCallEnds

(***************************************************************************)
(* The locks, and the order in which the operations take them              *)
(*                                                                         *)
(* Four kinds of asyncio.Lock: ws_manager._connection_lock,                *)
(* stream_manager._lock, TTSModel._lock, and AudioStream._lock of every    *)
(* session.  An operation is written as the list of what it does with the  *)
(* locks and of its awaits in between, in the order of its code; every     *)
(* entry is a step of its own, so the tasks interleave at least as freely  *)
(* as the event loop lets them.                                            *)
(***************************************************************************)
\* The tasks that run the operations.
NumLockTasks == 2

LockTasks == 1 .. NumLockTasks

ConnectionLock == [n |-> "connection", s |-> 0]

StreamRegistryLock == [n |-> "stream_registry", s |-> 0]

EngineLock == [n |-> "engine", s |-> 0]

SynthesisLock(s) == [n |-> "synthesis", s |-> s]

Locks ==
  {ConnectionLock, StreamRegistryLock, EngineLock}
    \cup {SynthesisLock(s) : s \in Conns}

NoLock == [n |-> "none", s |-> 0]

\* "async with lock:" is Enter(lock) ... Leave(lock); Await(what) is an
\* await that suspends the task.
Enter(lock) == [i |-> "enter", l |-> lock, what |-> "async with"]

Leave(lock) == [i |-> "leave", l |-> lock, what |-> "async with"]

Await(what) == [i |-> "await", l |-> NoLock, what |-> what]

\* AudioStream.close: await self._ping_task, await self.websocket.close().
close == <<Await("self._ping_task"), Await("websocket.close")>>

\* StreamManager.create_stream: await stream.initialize() (its
\* websocket.accept()), then the insertion under the registry lock.
create_stream ==
  <<Await("websocket.accept"), Enter(StreamRegistryLock), Leave(StreamRegistryLock)>>

\* StreamManager.remove_stream: close() and the deletion under the registry
\* lock.
remove_stream ==
  <<Enter(StreamRegistryLock)>> \o close \o <<Leave(StreamRegistryLock)>>

\* WebSocketManager.connect: create_stream, then the insertion under the
\* connection lock.
connect ==
  create_stream \o <<Enter(ConnectionLock), Leave(ConnectionLock)>>

\* WebSocketManager.disconnect with the stream lock taken first: not what
\* the code does.
disconnect_stream_lock_first ==
  <<Enter(StreamRegistryLock), Enter(ConnectionLock)>> \o close
    \o <<Leave(ConnectionLock), Leave(StreamRegistryLock)>>

\* WebSocketManager.disconnect: remove_stream and the deletion under the
\* connection lock.
disconnect ==
  <<Enter(ConnectionLock)>> \o remove_stream \o <<Leave(ConnectionLock)>>

\* WebSocketManager.broadcast: the sends, with no lock, then disconnect for
\* a session whose send failed.
broadcast == <<Await("connection.send_text")>> \o disconnect

\* TTSModel.generate_speech: the engine call under the engine lock.
engine_call ==
  <<Enter(EngineLock), Await("asyncio.to_thread"), Leave(EngineLock)>>

\* AudioStream.stream_audio on session s: under the session's synthesis
\* lock, generate_speech_stream (generate_speech, then the chunks), each
\* chunk and the end marker sent.
stream_audio_on(s) ==
  <<Enter(SynthesisLock(s))>> \o engine_call
    \o <<Await("websocket.send_bytes"), Await("websocket.send_json"),
         Leave(SynthesisLock(s))>>

Operations ==
  {"connect", "disconnect", "broadcast", "create_stream", "remove_stream",
   "stream_audio", "close", "generate_speech"}

\* The steps of operation op on session s.
Program(op, s) ==
  CASE op = "connect" -> connect
    [] op = "disconnect" -> disconnect
    [] op = "broadcast" -> broadcast
    [] op = "create_stream" -> create_stream
    [] op = "remove_stream" -> remove_stream
    [] op = "stream_audio" -> stream_audio_on(s)
    [] op = "close" -> close
    [] op = "generate_speech" -> engine_call
    [] OTHER -> << >>

Idle == [op |-> "idle", ip |-> 0, s |-> 0]

\* The step task t is at, if it runs an operation.
NoStep == [i |-> "none", l |-> NoLock, what |-> "none"]

StepOf(t) ==
  IF ltask[t].op = "idle" THEN NoStep
  ELSE Program(ltask[t].op, ltask[t].s)[ltask[t].ip]

\* The locks task t holds, and the lock it is about to take or waits for.
HeldBy(t) == {l \in Locks : held[l] = t}

Wanted(t) == IF StepOf(t).i = "enter" THEN StepOf(t).l ELSE NoLock

\* Task t has done its step: the next one, or the end of the operation.
Advance(t) ==
  IF ltask[t].ip >= Len(Program(ltask[t].op, ltask[t].s))
  THEN [ltask EXCEPT ![t] = Idle]
  ELSE [ltask EXCEPT ![t].ip = @ + 1]

\* Leaving every "async with" the task is in: what an exception does on
\* its way out.
Unwind(t) == [l \in Locks |-> IF held[l] = t THEN 0 ELSE held[l]]

\* Task t calls operation op for session s.
OperationCalled(t, op, s) ==
  /\ ltask[t].op = "idle"
  /\ ltask' = [ltask EXCEPT ![t] =
       [op |-> op, ip |-> 1, s |-> IF op = "stream_audio" THEN s ELSE 0]]
  /\ UNCHANGED held
  /\ UNCHANGED <<regVars, sessVars, histVars, bcVars, genVars, synVars, engVars, downVars>>

\* "async with lock" is entered: asyncio.Lock.acquire returns once the
\* lock is not held (a lock held by the task itself is held too: the lock
\* is not reentrant).
LockEntered(t) ==
  /\ StepOf(t).i = "enter"
  /\ held[StepOf(t).l] = 0
  /\ held' = [held EXCEPT ![StepOf(t).l] = t]
  /\ ltask' = Advance(t)
  /\ UNCHANGED <<regVars, sessVars, histVars, bcVars, genVars, synVars, engVars, downVars>>

\* "async with lock" is left at its end.
LockLeft(t) ==
  /\ StepOf(t).i = "leave"
  /\ held' = [held EXCEPT ![StepOf(t).l] = 0]
  /\ ltask' = Advance(t)
  /\ UNCHANGED <<regVars, sessVars, histVars, bcVars, genVars, synVars, engVars, downVars>>

\* An await returns.
AwaitReturned(t) ==
  /\ StepOf(t).i = "await"
  /\ ltask' = Advance(t)
  /\ UNCHANGED held
  /\ UNCHANGED <<regVars, sessVars, histVars, bcVars, genVars, synVars, engVars, downVars>>

\* An await raises inside stream_audio (the engine call or a send fails),
\* inside generate_speech, or inside create_stream (websocket.accept
\* fails): the exception leaves every "async with" on its way, and
\* stream_audio's handler goes on with self.close().
AwaitRaised(t) ==
  /\ ltask[t].op \in {"stream_audio", "generate_speech", "connect", "create_stream"}
  /\ StepOf(t).i = "await"
  /\ held' = Unwind(t)
  /\ ltask' = [ltask EXCEPT ![t] =
       IF @.op = "stream_audio" THEN [op |-> "close", ip |-> 1, s |-> 0]
       ELSE Idle]
  /\ UNCHANGED <<regVars, sessVars, histVars, bcVars, genVars, synVars, engVars, downVars>>

\* The synthesis task is cancelled while it waits, for a lock or in an
\* await: CancelledError leaves every "async with" and ends the task.
OperationCancelled(t) ==
  /\ ltask[t].op = "stream_audio"
  /\ StepOf(t).i \in {"enter", "await"}
  /\ held' = Unwind(t)
  /\ ltask' = [ltask EXCEPT ![t] = Idle]
  /\ UNCHANGED <<regVars, sessVars, histVars, bcVars, genVars, synVars, engVars, downVars>>

\* No lock held, no operation called.
LocksStart ==
  /\ held = [l \in Locks |-> 0]
  /\ ltask = [t \in LockTasks |-> Idle]

LocksNext ==
  \/ \E t \in LockTasks, op \in Operations, s \in Conns : OperationCalled(t, op, s)
  \/ \E t \in LockTasks : LockEntered(t)
  \/ \E t \in LockTasks : LockLeft(t)
  \/ \E t \in LockTasks : AwaitReturned(t)
  \/ \E t \in LockTasks : AwaitRaised(t)
  \/ \E t \in LockTasks : OperationCancelled(t)

(***************************************************************************)
(* The shutdown block of lifespan (main.py)                                *)
(*                                                                         *)
(*   if hasattr(app.state, "ngrok_manager"):                               *)
(*       await app.state.ngrok_manager.stop()                              *)
(*   active_streams = list(ws_manager._active_connections.keys())          *)
(*   for session_id in active_streams:                                     *)
(*       await ws_manager.disconnect(session_id)                           *)
(*                                                                         *)
(* inside "try ... except Exception", which logs.  The block makes its     *)
(* disconnect calls as the caller LifespanCaller.                          *)
(***************************************************************************)
LifespanCaller == NumCallers

\* The orders in which list(d.keys()) can give the keys of d: the dict
\* keeps the order of insertion, which the registry model does not record.
Orderings(keys) ==
  {order \in [1 .. Cardinality(keys) -> keys] :
     \A i, j \in 1 .. Cardinality(keys) : i # j => order[i] # order[j]}

\* Every transport has asked for admission and no admission is in
\* progress: the server has stopped accepting before the shutdown block
\* runs.
NoAdmissionLeft ==
  \A c \in Conns :
    cpc[c] \notin {"new", "accepting", "wait_stream_lock", "wait_conn_lock",
                   "h_accepting", "h_wait_stream_lock"}

\* The shutdown block starts.  With ngrok enabled, ngrok_manager.stop()
\* may raise (stopped = FALSE): the exception leaves the block before the
\* list is made.  Otherwise the list of the registered session ids is made.
ShutdownBegins(stopped) ==
  /\ lifespan.pc = "serving"
  /\ NoAdmissionLeft
  /\ IF stopped
     THEN \E order \in Orderings(active_connections) :
            lifespan' = [pc |-> "stopping", active_streams |-> order, i |-> 1,
                         registered |-> streams, error |-> FALSE]
     ELSE lifespan' = [pc |-> "done", active_streams |-> << >>, i |-> 0,
                       registered |-> streams, error |-> TRUE]
  /\ UNCHANGED regVars
  /\ UNCHANGED <<sessVars, histVars, bcVars, genVars, synVars, engVars, lockVars>>

\* One turn of the loop: ws_manager.disconnect(session_id) is called, as
\* in Disconnect; a session id that is no longer registered is left alone.
ShutdownDisconnect ==
  /\ lifespan.pc = "stopping"
  /\ dpc[LifespanCaller] = "idle"
  /\ lifespan.i <= Len(lifespan.active_streams)
  /\ LET sid == lifespan.active_streams[lifespan.i]
     IN IF sid \in active_connections
        THEN IF ~Locked(connLock)
             THEN RemoveStream(LifespanCaller, sid)
             ELSE /\ dpc' = [dpc EXCEPT ![LifespanCaller] = "wait_conn_lock"]
                  /\ dsid' = [dsid EXCEPT ![LifespanCaller] = sid]
                  /\ UNCHANGED <<active_connections, connLock, smLock, sActive,
                                 pingTask>>
        ELSE UNCHANGED <<active_connections, connLock, smLock, sActive,
                         pingTask, dpc, dsid>>
  /\ lifespan' = [lifespan EXCEPT !.i = @ + 1]
  /\ UNCHANGED <<streams, cpc, accepted, closeCode, err>>
  /\ UNCHANGED <<sessVars, histVars, bcVars, genVars, synVars, engVars, lockVars>>

\* The last disconnect call has returned: the loop and the block are over.
ShutdownComplete ==
  /\ lifespan.pc = "stopping"
  /\ dpc[LifespanCaller] = "idle"
  /\ lifespan.i > Len(lifespan.active_streams)
  /\ lifespan' = [lifespan EXCEPT !.pc = "done"]
  /\ UNCHANGED regVars
  /\ UNCHANGED <<sessVars, histVars, bcVars, genVars, synVars, engVars, lockVars>>

\* The application is up.
LifespanStart ==
  lifespan = [pc |-> "serving", active_streams |-> << >>, i |-> 0,
              registered |-> {}, error |-> FALSE]

\* Admissions, the disconnect calls of the sessions' own tasks, and the
\* shutdown block.
ShutdownNext ==
  \/ \E c \in Conns : Connect(c)
  \/ \E c \in Conns, ok \in BOOLEAN : ConnectAccepted(c, ok)
  \/ \E c \in Conns : ConnectStreamLock(c)
  \/ \E c \in Conns : Initialize(c)
  \/ \E c \in Conns, ok \in BOOLEAN : InitializeAccepted(c, ok)
  \/ \E c \in Conns : InitializeStreamLock(c)
  \/ \E c \in Conns : HandleWebsocketError(c)
  \/ \E k \in Callers \ {LifespanCaller}, sid \in Conns : Disconnect(k, sid)
  \/ \E k \in Callers : DisconnectConnLock(k)
  \/ \E k \in Callers : DisconnectPingEnded(k)
  \/ \E k \in Callers : DisconnectWsClose(k)
  \/ \E k \in Callers : DisconnectDone(k)
  \/ \E c \in Conns : KeepAliveClose(c)
  \/ \E stopped \in BOOLEAN : ShutdownBegins(stopped)
  \/ ShutdownDisconnect
  \/ ShutdownComplete

(***************************************************************************)
(* TTSModel.generate_speech_stream: the chunking of the waveform           *)
(***************************************************************************)
\* settings.CHUNK_SIZE (4096 by default), scaled down: the value of
\* TTSModel._stream_chunk_size.
CHUNK_SIZE == 2

\* The longest waveform, in samples.
MaxSamples == 3

\* The int16 sample values the waveforms are made of.
Samples == {-2, 1, 300}

\* "wav = (wav * 32767).astype(np.int16)": the waveforms.
Waveforms == UNION {[1 .. n -> Samples] : n \in 0 .. MaxSamples}

\* The chunk_size arguments: None (0), and the sizes up to one more than
\* the default.
ChunkSizes == 0 .. (CHUNK_SIZE + 1)

\* "chunk_size = chunk_size or self._stream_chunk_size".
EffectiveChunkSize(cs) == IF cs = 0 THEN CHUNK_SIZE ELSE cs

\* wav[i:j] for 0 <= i <= j: the samples at the 0-based positions i .. j-1
\* that exist.
Slice(w, i, j) ==
  LET hi == IF j < Len(w) THEN j ELSE Len(w)
  IN [k \in 1 .. (IF hi > i THEN hi - i ELSE 0) |-> w[i + k]]

\* "if len(chunk) < chunk_size: chunk = np.pad(chunk, (0, chunk_size -
\* len(chunk)), mode='constant', constant_values=0)".
PadNone(chunk, c) == chunk

Pad(chunk, c) ==
  IF Len(chunk) < c THEN chunk \o [k \in 1 .. (c - Len(chunk)) |-> 0] ELSE chunk

\* chunk.tobytes() of an int16 array: two bytes a sample, low byte first,
\* two's complement.
ToBytes(chunk) ==
  [b \in 1 .. (2 * Len(chunk)) |->
     LET u == chunk[(b + 1) \div 2] % 65536
     IN IF b % 2 = 1 THEN u % 256 ELSE u \div 256]

\* One step of "for i in range(0, len(wav), chunk_size): ... yield
\* chunk.tobytes()": asked for its next item at position gi, the generator
\* yields the chunk that starts there, or ends (gi = -1) when the range is
\* used up.
GenNext ==
  /\ gi >= 0
  /\ LET c == EffectiveChunkSize(chunk_size)
     IN IF gi < Len(wav)
        THEN /\ chunks' = Append(chunks, ToBytes(Pad(Slice(wav, gi, gi + c), c)))
             /\ gi' = gi + c
        ELSE /\ gi' = -1
             /\ UNCHANGED chunks
  /\ UNCHANGED <<wav, chunk_size>>
  /\ UNCHANGED <<regVars, sessVars, histVars, bcVars, synVars, engVars, lockVars, downVars>>

(***************************************************************************)
(* WSMessageHandler._handle_synthesis(message) on one message              *)
(*                                                                         *)
(* A field of the JSON message is absent, null, a string or a number; the  *)
(* numbers are written in tenths (10 is 1.0).                              *)
(***************************************************************************)
Absent == [t |-> "absent", v |-> 0]

Null == [t |-> "null", v |-> 0]

Str(s) == [t |-> "str", v |-> s]

Num(n) == [t |-> "num", v |-> n]

\* The messages of type "synthesize".
TextInputs == {Absent, Null, Str(""), Str("hi")}

VoiceInputs == {Absent, Null, Str("alice")}

SpeedInputs == {Absent, Null, Num(10), Num(20), Str("1.5"), Str("fast")}

SynthesizeMessages == [text : TextInputs, voice : VoiceInputs, speed : SpeedInputs]

\* message.get(field, default): the default stands in for a field that is
\* absent, not for one that is null.
GetNoDefault(m, field, default) == IF m[field].t = "absent" THEN Null ELSE m[field]

Get(m, field, default) == IF m[field].t = "absent" THEN default ELSE m[field]

\* "not text" is false for a string that is not empty and a number that is
\* not zero.
Truthy(x) ==
  CASE x.t = "str" -> x.v # ""
    [] x.t = "num" -> x.v # 0
    [] OTHER -> FALSE

\* float(x): a number as it is, a string that spells a number parsed,
\* ValueError for another string and TypeError for None (both "raise").
Float(x) ==
  CASE x.t = "num" -> x
    [] x = Str("1.5") -> Num(15)
    [] OTHER -> [t |-> "raise", v |-> 0]

\* What one call of _handle_synthesis does: the error it sends (or "none"),
\* whether it creates a synthesis task, and the arguments of
\* stream.stream_audio(text, voice, speed) in that task.
NoArgs == [text |-> Null, voice |-> Null, speed |-> Null]

NoOutcome == [called |-> FALSE, error |-> "none", task |-> FALSE, args |-> NoArgs]

HandleSynthesis(m) ==
  LET text == Get(m, "text", Null)
      voice == Get(m, "voice", Str("default"))
      speed == Float(Get(m, "speed", Num(10)))
  IN IF ~Truthy(text)
     THEN [called |-> TRUE, error |-> "No text provided", task |-> FALSE,
           args |-> NoArgs]
     ELSE IF speed.t = "raise"
     THEN [called |-> TRUE, error |-> "Synthesis failed", task |-> FALSE,
           args |-> NoArgs]
     ELSE [called |-> TRUE, error |-> "none", task |-> TRUE,
           args |-> [text |-> text, voice |-> voice, speed |-> speed]]

\* _handle_synthesis(synMsg) up to its first suspension: the await of
\* _send_error, or the await of the synthesis task it has created.
SynthesisCall ==
  /\ ~synOut.called
  /\ synOut' = HandleSynthesis(synMsg)
  /\ UNCHANGED synMsg
  /\ UNCHANGED <<regVars, sessVars, histVars, bcVars, genVars, engVars, lockVars, downVars>>
(***************************************************************************)
(* The specifications                                                      *)
(***************************************************************************)
RegistryStart ==
  /\ streams = {}
  /\ active_connections = {}
  /\ smLock = 0
  /\ connLock = 0
  /\ cpc = [c \in Conns |-> "new"]
  /\ accepted = [c \in Conns |-> FALSE]
  /\ closeCode = [c \in Conns |-> 0]
  /\ sActive = [c \in Conns |-> TRUE]
  /\ pingTask = [c \in Conns |-> "none"]
  /\ err = [c \in Conns |-> NoError]
  /\ dpc = [k \in Callers |-> "idle"]
  /\ dsid = [k \in Callers |-> 0]

\* No call of broadcast has been made.
BroadcastStart ==
  /\ bpc = "idle"
  /\ bStart = {}
  /\ bSeen = {}
  /\ bCur = 0
  /\ bFailed = << >>
  /\ bIdx = 0

\* No waveform, and the generator at the top of its loop.
GenIdle ==
  /\ wav = << >>
  /\ chunk_size = 0
  /\ gi = 0
  /\ chunks = << >>

\* generate_speech has returned a waveform, converted to int16, and the
\* generator is at the top of its loop.
GenStart ==
  /\ wav \in Waveforms
  /\ chunk_size \in ChunkSizes
  /\ gi = 0
  /\ chunks = << >>

\* No call of _handle_synthesis.
SynIdle ==
  /\ synMsg = [text |-> Absent, voice |-> Absent, speed |-> Absent]
  /\ synOut = NoOutcome

\* A "synthesize" message is about to be handled.
SynStart ==
  /\ synMsg \in SynthesizeMessages
  /\ synOut = NoOutcome

Init ==
  /\ RegistryStart /\ SessionStart /\ BroadcastStart /\ GenIdle /\ SynIdle
  /\ EngineStart /\ LocksStart /\ LifespanStart

InitChunking ==
  /\ RegistryStart /\ SessionStart /\ BroadcastStart /\ GenStart /\ SynIdle
  /\ EngineStart /\ LocksStart /\ LifespanStart

InitSynthesis ==
  /\ RegistryStart /\ SessionStart /\ BroadcastStart /\ GenIdle /\ SynStart
  /\ EngineStart /\ LocksStart /\ LifespanStart

RegistryNext ==
  \/ \E c \in Conns : Connect(c)
  \/ \E c \in Conns, ok \in BOOLEAN : ConnectAccepted(c, ok)
  \/ \E c \in Conns : ConnectStreamLock(c)
  \/ \E c \in Conns : Initialize(c)
  \/ \E c \in Conns, ok \in BOOLEAN : InitializeAccepted(c, ok)
  \/ \E c \in Conns : InitializeStreamLock(c)
  \/ \E c \in Conns : HandleWebsocketError(c)
  \/ \E k \in Callers, sid \in Conns : Disconnect(k, sid)
  \/ \E k \in Callers, sid \in Conns : DisconnectAbsent(k, sid)
  \/ \E k \in Callers : DisconnectConnLock(k)
  \/ \E k \in Callers : DisconnectPingEnded(k)
  \/ \E k \in Callers : DisconnectWsClose(k)
  \/ \E k \in Callers : DisconnectDone(k)
  \/ \E c \in Conns : KeepAliveClose(c)

\* One call of broadcast, with admissions through connect and removals by
\* the other callers of disconnect going on next to it.
BroadcastNext ==
  \/ \E c \in Conns : Connect(c)
  \/ \E c \in Conns, ok \in BOOLEAN : ConnectAccepted(c, ok)
  \/ \E c \in Conns : ConnectStreamLock(c)
  \/ \E k \in Callers \ {Broadcaster}, sid \in Conns : Disconnect(k, sid)
  \/ \E k \in Callers \ {Broadcaster} : DisconnectConnLock(k)
  \/ \E k \in Callers : DisconnectPingEnded(k)
  \/ \E k \in Callers : DisconnectWsClose(k)
  \/ \E k \in Callers \ {Broadcaster} : DisconnectDone(k)
  \/ BroadcastCall
  \/ \E ok \in BOOLEAN : BroadcastSent(ok)
  \/ BroadcastConnLock
  \/ BroadcastDisconnectDone

\* The registry under concurrent admissions and removals.
SpecRegistry == Init /\ [][RegistryNext]_vars

\* One WSMessageHandler session from the endpoint's call on.
SpecSession == Init /\ [][SessionNext]_vars

\* The runs of the consumer task, of the synthesis task and of the stream's
\* ping task after its cancellation or failure.
ConsumerStep ==
  \/ PHandleSimple
  \/ PHandleStop
  \/ PStopPingEnded
  \/ PHandleSynthesize
  \/ PSynthDone
  \/ PCancelled

\* The longest waveform of the fair session, in chunks.
FairChunks == 1

StreamerStep ==
  \/ SStart
  \/ \E n \in 0 .. FairChunks : SEngine(n)
  \/ SEngineFailed
  \/ SNext
  \/ SEndSent
  \/ SClosePingEnded
  \/ SCloseDone
  \/ SCancelled

PingTaskStep == GClose \/ GCancelled

\* The messages of the fair session: one kind for each way a handler ends
\* (a streaming request, a request whose handler raises, a stop, a message
\* without a reply).
FairKinds == {"synthesize", "synthesize_badspeed", "stop", "pong"}

FairNext ==
  \/ EAccepted
  \/ EAcceptFailed
  \/ \E kind \in FairKinds : EReceive(kind)
  \/ EReceiveInvalidJson
  \/ ClientDisconnect
  \/ EReceiveFailed
  \/ \E o \in {"E", "K"} : CleanupResume(o)
  \/ \E o \in {"E", "K"} : CleanupPingEnded(o)
  \/ \E o \in {"E", "K"} : CleanupDone(o)
  \/ KPing
  \/ KPingFailed
  \/ KCancelled
  \/ GPingFailed
  \/ GClose
  \/ GCancelled
  \/ ConsumerStep
  \/ StreamerStep

\* One session under fair scheduling: the event loop runs every task that
\* is ready, so a task whose awaited call has returned (a message is in the
\* queue, the awaited task has ended, a send has returned) or whose
\* cancellation is pending does run; and the engine call, which runs in a
\* worker thread, comes back.
SpecSessionFair ==
  /\ Init
  /\ [][FairNext]_vars
  /\ WF_vars(ConsumerStep)
  /\ WF_vars(StreamerStep)
  /\ WF_vars(PingTaskStep)

\* The runs of WSMessageHandler.cleanup, in the endpoint's "finally" and in
\* the keepalive task.
CleanupStep ==
  \E o \in {"E", "K"} : CleanupResume(o) \/ CleanupPingEnded(o) \/ CleanupDone(o)

\* One session with every task of it scheduled fairly: the tasks of
\* SpecSessionFair, the cleanup calls, and the keepalive task's run after
\* its cancellation.
SpecTeardownFair ==
  /\ Init
  /\ [][FairNext]_vars
  /\ WF_vars(ConsumerStep)
  /\ WF_vars(StreamerStep)
  /\ WF_vars(PingTaskStep)
  /\ WF_vars(CleanupStep)
  /\ WF_vars(KCancelled)

\* One call of WebSocketManager.broadcast next to connect and disconnect.
SpecBroadcast == Init /\ [][BroadcastNext]_vars

\* generate_speech_stream on every waveform and chunk size of the bounds.
SpecChunking == InitChunking /\ [][GenNext]_vars

\* _handle_synthesis on every "synthesize" message of the bounds.
SpecSynthesis == InitSynthesis /\ [][SynthesisCall]_vars

\* The engine singleton under concurrent calls of initialize, of the
\* synthesis methods and of stream_audio, and cancellations of the latter.
SpecEngine == Init /\ [][EngineNext]_vars

\* The operations that take locks, called by concurrent tasks in any order.
SpecLocks == Init /\ [][LocksNext]_vars

\* Admissions and disconnects up to and during the shutdown block.
SpecShutdown == Init /\ [][ShutdownNext]_vars

\* The two registry locks are held together or not at all, and no call is
\* parked on a lock that only such a holder could free separately.
LockNesting ==
  /\ smLock = connLock
  /\ \A c \in Conns : cpc[c] # "wait_conn_lock"
  /\ \A k \in Callers : dpc[k] # "wait_stream_lock"

(***************************************************************************)
(* Claims about the registry, checked under SpecRegistry                   *)
(***************************************************************************)
\* C1: in every reachable state the number of registered sessions
\* (stream_manager.active_streams) is at most MAX_CONNECTIONS, for every
\* interleaving of admissions through WebSocketManager.connect and
\* WSMessageHandler.initialize and of removals.
C1_ActiveStreamsWithinCapacity == Cardinality(streams) <= MAX_CONNECTIONS

\* C2: a call of WebSocketManager.connect made while the registry holds
\* MAX_CONNECTIONS sessions (or more) ends at once in a WebSocketError for
\* the caller, the transport is not accepted, and neither registry map
\* changes in that call; a rejected transport is in neither map.
C2_ConnectAtCapacityRejected ==
  /\ [](\A c \in Conns : cpc[c] \in {"rejected", "handled"} =>
          /\ err[c].kind = "WebSocketError"
          /\ ~accepted[c]
          /\ c \notin streams
          /\ c \notin active_connections)
  /\ [][\A c \in Conns :
          (/\ cpc[c] = "new"
           /\ cpc'[c] \in {"rejected", "accepting"}
           /\ Cardinality(streams) >= MAX_CONNECTIONS)
          => /\ cpc'[c] = "rejected"
             /\ err'[c].kind = "WebSocketError"
             /\ ~accepted'[c]
             /\ streams' = streams
             /\ active_connections' = active_connections]_vars

\* C2's case: a connect was rejected with the registry full.
C2_Witness ==
  \E c \in Conns : /\ cpc[c] = "rejected"
                   /\ err[c].kind = "WebSocketError"
                   /\ Cardinality(streams) = MAX_CONNECTIONS

\* C3: once the error of a capacity rejection has been handled
\* (handle_websocket_error), the rejected transport has been closed with
\* the "try again later" code WS 1013.
C3_RejectionClosedWith1013 ==
  \A c \in Conns : cpc[c] = "handled" => closeCode[c] = WS_1013_TRY_AGAIN_LATER

\* A caller of disconnect is inside AudioStream.close for the session.
InTeardown(k) == dpc[k] \in {"await_ping", "ws_close", "closed"}

\* C20: disconnect tears a session down only while it is registered, one
\* caller at a time; a call for an id that is not registered, and a call that
\* was waiting for the lock while another call removed the id, return
\* without changing the registry, the stream or the transport; and once a
\* call has removed a session nothing of it changes again.
C20_DisconnectIdempotent ==
  /\ [](/\ \A k \in Callers : InTeardown(k) =>
             dsid[k] \in streams /\ dsid[k] \in active_connections
        /\ Cardinality({k \in Callers : InTeardown(k)}) <= 1)
  /\ [][/\ \A k \in Callers :
             (dpc[k] = "wait_conn_lock" /\ dpc'[k] = "idle")
               => (/\ dsid[k] \notin streams
                   /\ streams' = streams
                   /\ active_connections' = active_connections
                   /\ closeCode' = closeCode
                   /\ sActive' = sActive
                   /\ pingTask' = pingTask)
        /\ \A c \in Conns :
             (cpc[c] = "connected" /\ c \notin streams)
               => (/\ c \notin streams'
                   /\ c \notin active_connections'
                   /\ closeCode'[c] = closeCode[c]
                   /\ sActive'[c] = sActive[c]
                   /\ pingTask'[c] = pingTask[c])]_vars

\* C20's case: one disconnect has torn the session down and removed it while
\* a second disconnect for the same id, past its membership test, waits for
\* the lock.
C20_Witness ==
  \E k \in Callers, c \in Conns :
    /\ dpc[k] = "wait_conn_lock"
    /\ dsid[k] = c
    /\ cpc[c] = "connected"
    /\ c \notin streams
    /\ c \notin active_connections
    /\ closeCode[c] = WS_1000_NORMAL_CLOSURE
    /\ connLock = 0

\* The callers of disconnect that are inside "async with self._lock" of
\* remove_stream, and those inside "async with self._connection_lock".
StreamLockHolders ==
  {k \in Callers : dpc[k] \in {"await_ping", "ws_close", "closed"}}

ConnLockHolders ==
  {k \in Callers : dpc[k] \in {"wait_stream_lock", "await_ping", "ws_close", "closed"}}

\* C23: each registry lock has at most one holder in every state, and
\* every insertion into and deletion from stream_manager._streams and
\* ws_manager._active_connections is made by the task that holds the lock
\* of that map: by the holder that is suspended inside the lock, or, when
\* nobody is inside the lock, by a task that takes the free lock, changes
\* the map and releases the lock in one run.
C23_MutationsUnderLocks ==
  /\ [](/\ Cardinality(StreamLockHolders) <= 1
        /\ Cardinality(ConnLockHolders) <= 1
        /\ \A k \in StreamLockHolders : smLock = k
        /\ \A k \in ConnLockHolders : connLock = k)
  /\ [][/\ streams' # streams =>
             \/ StreamLockHolders = {} /\ smLock = 0
             \/ \E k \in StreamLockHolders : streams' = streams \ {dsid[k]}
        /\ active_connections' # active_connections =>
             \/ ConnLockHolders = {} /\ connLock = 0
             \/ \E k \in ConnLockHolders :
                  active_connections' = active_connections \ {dsid[k]}]_vars

\* C23's case: a caller of disconnect is suspended inside both locks while
\* an admission waits for the stream lock, and both maps have been changed.
C23_Witness ==
  \E k \in Callers, c \in Conns :
     /\ dpc[k] = "ws_close"
     /\ smLock = k
     /\ connLock = k
     /\ cpc[c] \in {"wait_stream_lock", "h_wait_stream_lock"}
     /\ active_connections # {}

\* No call of connect and no call of disconnect is in progress.
NoConnectOrDisconnectInProgress ==
  /\ \A c \in Conns : cpc[c] \notin {"accepting", "wait_stream_lock", "wait_conn_lock"}
  /\ \A k \in Callers : dpc[k] = "idle"

\* Every key of _active_connections is a key of _streams.  The session id
\* of the stream of transport c is written c, and connect stores the
\* transport it gave to create_stream under stream.session_id, so the two
\* entries of one key name one transport.
ConnectionsHaveStreams == active_connections \subseteq streams

C21_BroadcastReachesAllRemovesFailed ==
  /\ bpc \in {"removing", "returned", "raised"} => bStart \subseteq bSeen
  /\ bpc = "sending" => bIdx = 0 /\ dpc[Broadcaster] = "idle"
  /\ bpc \in {"returned", "raised"} =>
       \A j \in 1 .. Len(bFailed) : bFailed[j] \notin active_connections

\* C22: every send of a broadcast pass after the first starts on the
\* registry map the pass started on: between the first send of a pass and a
\* later one no connect has inserted into ws_manager._active_connections
\* and no disconnect has deleted from it.
C22_NoMutationDuringBroadcastPass ==
  [][(bpc = "sending" /\ bpc' = "sending" /\ bCur' # bCur)
       => active_connections = bStart]_vars

(***************************************************************************)
(* Claims about one session, checked under SpecSession                     *)
(***************************************************************************)
Range(s) == {s[i] : i \in 1 .. Len(s)}

Increasing(s) == \A i, j \in 1 .. Len(s) : i < j => s[i] < s[j]

IsPrefix(s, t) == Len(s) <= Len(t) /\ \A i \in 1 .. Len(s) : s[i] = t[i]

\* The frames of one synthesize request, in the order they were sent.
FramesOf(op) == SelectSeq(sent, LAMBDA f : f.op = op)

\* The frames of a request whose waveform has n chunks: the chunks in
\* production order, then the end marker.
AllFrames(op, n) == [i \in 1 .. n + 1 |-> [op |-> op, k |-> IF i <= n THEN i ELSE 0]]

\* The message whose handler ends in the next run of the consumer.
Finishing ==
  IF pc["P"] \in {"stop_await_ping", "await_synth"} THEN cur
  ELSE IF queue # <<>> THEN Head(queue) ELSE NoMsg

\* Nothing but the handling of messages has touched the session so far.
Undisturbed == ~clientGone /\ ~kaTimeout /\ ~acceptFailed

\* C4: the messages of a session are handled in the order in which
\* handle_incoming_message enqueued them (ids count arrivals), the queue
\* holds the later arrivals in that order, and the handler of a message
\* starts only when the handler of the one before has finished: at most one
\* handler is running in any state.
C4_HandledInArrivalOrder ==
  /\ Increasing(handledSeq)
  /\ Increasing([i \in 1 .. Len(queue) |-> queue[i].id])
  /\ \A i \in 1 .. Len(queue), j \in 1 .. Len(handledSeq) : handledSeq[j] < queue[i].id
  /\ IsPrefix(finishedSeq, handledSeq)
  /\ Len(handledSeq) - Len(finishedSeq) \in {0, 1}

\* C4's case: the handler of the first message is running (its synthesis is
\* sending) while the second message waits in the queue.
C4_Witness ==
  /\ handledSeq = <<1>>
  /\ finishedSeq = <<>>
  /\ pc["S"] = "sending"
  /\ Len(queue) = 1
  /\ queue[1].id = 2

C6_OneStreamingOperation ==
  /\ Cardinality({i \in 1 .. Len(sOut) : sOut[i].st = "run"}) <= 1
  /\ \A i \in 1 .. Len(sOut) : sOut[i].st = "run" => i = Len(sOut) /\ pc["S"] # "none"
  /\ pc["S"] # "none" => pc["P"] = "await_synth" /\ cur.id = CurOp
  /\ \A i, j \in 1 .. Len(sOut) : i < j => sOut[i].op < sOut[j].op
  /\ \A i, j \in 1 .. Len(sent) : i < j => sent[i].op <= sent[j].op

\* C6's case: the first request has sent a chunk and is still streaming
\* while a second synthesize waits in the queue.
C6_Witness ==
  /\ Len(sOut) = 1
  /\ pc["S"] = "sending"
  /\ FramesOf(sOut[1].op) # <<>>
  /\ queue # <<>>
  /\ Head(queue).kind = "synthesize"

\* C7: the consumer's handling of a stop that arrived while a request was
\* streaming, on a session nothing else has disturbed, leaves the session
\* Active (transport open, stream active) and, when the handler ends, has
\* sent the client one success message for it.
C7_StopWhileSynthesizing ==
  [][/\ (/\ ConsumerReady
         /\ queue # <<>>
         /\ Head(queue).kind = "stop"
         /\ Head(queue).during # 0
         /\ Undisturbed /\ wsState = "open" /\ sAct
         /\ handledSeq' # handledSeq)
        => (sAct' /\ wsState' = "open")
     /\ (/\ Finishing.kind = "stop"
         /\ Finishing.during # 0
         /\ Undisturbed
         /\ finishedSeq' # finishedSeq)
        => (/\ ctl' = Append(ctl, [msg |-> Finishing.id, type |-> "success"])
            /\ wsState' = "open"
            /\ sAct')]_vars

\* C8: the consumer's handling of a stop on an Active session with nothing
\* streaming changes nothing but the success message it sends: the transport
\* stays open, the stream stays active and its ping task keeps running.
C8_StopWhileActiveIsNoOp ==
  [][(/\ pc["P"] \in {"get", "stop_await_ping"}
      /\ Finishing.kind = "stop"
      /\ Finishing.during = 0
      /\ Undisturbed
      /\ pc["S"] = "none"
      /\ (handledSeq' # handledSeq \/ finishedSeq' # finishedSeq))
     => (/\ wsState' = "open"
         /\ sAct'
         /\ pc'["G"] = "sleep" /\ ~cancelReq'["G"]
         /\ finishedSeq' # finishedSeq =>
              ctl' = Append(ctl, [msg |-> Finishing.id, type |-> "success"]))]_vars

\* C9: once the handler of a synthesize request whose engine call failed has
\* ended, on a session nothing else has disturbed, the client has been sent
\* an error message for it and the session is Active: transport open and
\* stream active.
C9_EngineFailureLeavesSessionActive ==
  \A i \in 1 .. Len(sOut) :
    (/\ sOut[i].cause = "engine"
     /\ sOut[i].op \in Range(finishedSeq)
     /\ Undisturbed)
    => (/\ [msg |-> sOut[i].op, type |-> "error"] \in Range(ctl)
        /\ wsState = "open"
        /\ sAct)

\* C10: a session whose transport has been closed, or whose stream or
\* handler has been made inactive, has had a keepalive timeout or a
\* transport failure (the client gone, the handshake failed) before.
C10_OnlyTimeoutOrTransportFailureCloses ==
  (wsState = "closed" \/ ~sAct \/ ~hActive) => (kaTimeout \/ clientGone \/ acceptFailed)

\* C11: a frame that is not valid JSON (a receive that enqueues nothing) is
\* answered with exactly one error message and changes nothing else: the
\* queue, the tasks' positions (the endpoint stays in its receive loop, the
\* consumer goes on draining), the transport and the liveness flags are as
\* before.
C11_InvalidJsonAnswered ==
  [][(nRecv' = nRecv + 1 /\ queue' = queue)
     => (/\ ctl' = Append(ctl, [msg |-> 0, type |-> "error"])
         /\ pc' = pc
         /\ pc["E"] = "recv"
         /\ wsState' = wsState /\ wsState = "open"
         /\ sAct' = sAct
         /\ hActive' = hActive /\ hActive
         /\ cancelReq' = cancelReq
         /\ handledSeq' = handledSeq
         /\ finishedSeq' = finishedSeq
         /\ sent' = sent)]_vars

\* C11's case: the first frame was invalid JSON and got its error message,
\* the second frame was a message and has been handled, the session Active.
C11_Witness ==
  /\ [msg |-> 0, type |-> "error"] \in Range(ctl)
  /\ handledSeq = <<2>>
  /\ finishedSeq = <<2>>
  /\ wsState = "open"
  /\ hActive
  /\ sAct
  /\ pc["E"] = "recv"
  /\ pc["P"] = "get"

\* C12: when the consumer takes a message of an unrecognized type, a
\* synthesize without text or a synthesize with a non-numeric speed from the
\* queue of a session whose transport is open, it sends exactly one error
\* message for it, ends the handler in that run and is back at the queue for
\* the next message; the transport and the stream are left as they were.
C12_RecoverableErrorsAnswered ==
  [][(/\ ConsumerReady
      /\ queue # <<>>
      /\ Head(queue).kind \in {"unknown", "synthesize_notext", "synthesize_badspeed"}
      /\ SendOk
      /\ handledSeq' # handledSeq)
     => (/\ ctl' = Append(ctl, [msg |-> Head(queue).id, type |-> "error"])
         /\ handledSeq' = Append(handledSeq, Head(queue).id)
         /\ finishedSeq' = Append(finishedSeq, Head(queue).id)
         /\ queue' = Tail(queue)
         /\ pc'["P"] = "get"
         /\ wsState' = wsState
         /\ sAct' = sAct
         /\ sent' = sent)]_vars

\* C12's case: two such messages in a row, each answered with its error
\* message, the consumer back at the queue.
C12_Witness ==
  /\ ctl = <<[msg |-> 1, type |-> "error"], [msg |-> 2, type |-> "error"]>>
  /\ finishedSeq = <<1, 2>>
  /\ pc["P"] = "get"
  /\ wsState = "open"

\* C13: when stream_audio returns after all chunks and the end marker, on a
\* session nothing else has disturbed, the stream lock is free, the transport
\* open, the stream and the handler active and the session registered; and
\* when the consumer then leaves the handler of that request it is back at
\* the queue for the next message.
C13_ActiveAfterStreaming ==
  [][/\ (/\ pc["S"] = "sending_end"
         /\ pc'["S"] = "none"
         /\ sOut'[Len(sOut)].st = "ok"
         /\ Undisturbed)
        => (/\ FramesOf(CurOp) = AllFrames(CurOp, sOut[Len(sOut)].n)
            /\ ~streamLock'
            /\ wsState' = "open"
            /\ sAct'
            /\ hActive'
            /\ registered'
            /\ pc'["P"] = "await_synth")
     /\ (/\ pc["P"] = "await_synth"
         /\ pc'["P"] # "await_synth"
         /\ sOut[Len(sOut)].st = "ok"
         /\ FramesOf(CurOp) = AllFrames(CurOp, sOut[Len(sOut)].n)
         /\ Undisturbed)
        => (/\ pc'["P"] = "get"
            /\ ~streamLock'
            /\ wsState' = "open"
            /\ sAct'
            /\ hActive'
            /\ registered'
            /\ finishedSeq' = Append(finishedSeq, CurOp))]_vars

\* C13's case: the first request has streamed MaxChunks chunks and the end
\* marker, and the message after it has been handled and answered on the
\* open, registered session.
C13_Witness ==
  /\ Len(sOut) = 1
  /\ sOut[1].st = "ok"
  /\ FramesOf(1) = AllFrames(1, MaxChunks)
  /\ finishedSeq = <<1, 2>>
  /\ [msg |-> 2, type |-> "success"] \in Range(ctl)
  /\ wsState = "open"
  /\ ~streamLock
  /\ registered
  /\ sAct

\* The session's owned tasks have all ended.
AllTasksEnded == ~Running("P") /\ ~Running("K") /\ ~Running("G") /\ ~Running("S")

\* C14: once the endpoint has finished its teardown on a session whose
\* stream keepalive timed out, the session is Closed (owned tasks ended,
\* transport closed) and is no longer counted by the registry.
C14_KeepaliveTimeoutDeregisters ==
  (kaTimeout /\ pc["E"] = "done") =>
    (wsState = "closed" /\ AllTasksEnded /\ ~registered)

\* C15: after WSMessageHandler.cleanup has returned, in the endpoint or in
\* the keepalive task, the registry no longer holds the entry that
\* initialize created for the session.
C15_CleanupDeregisters ==
  \A o \in {"E", "K"} : pc[o] = "done" => ~registered

\* C16: WSMessageHandler.cleanup never ends with an exception of one of the
\* session's tasks; it goes on to close the stream and to the registry
\* removal whatever the outcome of each task.
C16_CleanupNeverAborts ==
  \A o \in {"E", "K"} : pc[o] # "failed"

\* C17: in every state in which WSMessageHandler.cleanup has returned, in
\* the endpoint or in the keepalive task, the consumer, the stream's ping
\* task and every synthesis task have ended, and the handler's keepalive has
\* ended or is the very task whose cleanup call it was, past its last await.
C17_TasksEndedAfterCleanup ==
  \A o \in {"E", "K"} : pc[o] = "done" =>
    /\ AllTasksEnded
    /\ \A i \in 1 .. Len(sOut) : sOut[i].st # "run"

\* C17's case: cleanup has returned in the endpoint after it cancelled a
\* request that was streaming.
C17_Witness ==
  /\ pc["E"] = "done"
  /\ sOut # <<>>
  /\ sOut[Len(sOut)].st = "cancelled"
  /\ sent # <<>>
  /\ pc["P"] = "cancelled"

\* The cleanup call of the endpoint or of the keepalive task is over.
CleanupOver(o) == pc[o] \in {"done", "failed"}

\* C18: when both the keepalive task and the endpoint have called
\* WSMessageHandler.cleanup and both calls are over, neither has raised, the
\* session is closed, and from the return of the first call on the other
\* call changes nothing of the transport, the liveness flags, the registry
\* entry or the frames sent.
C18_TeardownIdempotent ==
  /\ []((CleanupOver("E") /\ CleanupOver("K")) =>
          (pc["E"] = "done" /\ pc["K"] = "done" /\ wsState = "closed" /\ ~sAct /\ ~hActive))
  /\ [][(pc["E"] = "done" \/ pc["K"] = "done") =>
          (/\ wsState' = wsState
           /\ sAct' = sAct
           /\ hActive' = hActive
           /\ registered' = registered
           /\ sent' = sent
           /\ ctl' = ctl)]_vars

\* C19: a liveness flag that is False (the handler's, set by cleanup; the
\* stream's, set by close) stays False, and in a state where either is
\* False no audio chunk and no end marker is sent.
C19_ClosedIsTerminal ==
  [][/\ ~sAct => ~sAct'
     /\ ~hActive => ~hActive'
     /\ (~sAct \/ ~hActive) => sent' = sent]_vars

\* C19's case: the stream was closed while or after a first request had
\* sent frames, and a second request has run on the closed stream and
\* returned without a frame.
C19_Witness ==
  /\ ~sAct
  /\ Len(sOut) = 2
  /\ FramesOf(sOut[1].op) # <<>>
  /\ sOut[2].st = "ok"
  /\ sOut[2].n > 0
  /\ FramesOf(sOut[2].op) = <<>>

\* C24: in every state in which no streaming operation of the session is
\* inside "async with self._lock" (none has started, or the last one has
\* returned, has raised or was cancelled), the synthesis lock
\* AudioStream._lock is free; so a synthesis task that is about to take the
\* lock finds it free.
C24_SynthesisLockFreeBetweenOperations ==
  pc["S"] \in {"none", "start", "close_await_ping", "close_ws"} => ~streamLock

\* C24's case: a streaming operation was cancelled by cleanup after it had
\* sent a chunk, and the lock is free.
C24_Witness ==
  /\ pc["S"] = "none"
  /\ ~streamLock
  /\ \E i \in 1 .. Len(sOut) :
       sOut[i].st = "cancelled" /\ FramesOf(sOut[i].op) # <<>>

\* C25: when the streaming operation comes to its check of the stream's
\* liveness flag (after the engine has returned the waveform, or after a
\* chunk send has returned) and the flag is False, it sends no further
\* chunk and no end marker, and stream_audio returns without raising.
C25_StreamerStopsEarlyOnceClosing ==
  [][(/\ pc["S"] \in {"engine", "sending"}
      /\ ~sAct
      /\ pc'["S"] # pc["S"]
      /\ sOut'[Len(sOut')].st # "cancelled"
      /\ sOut'[Len(sOut')].cause # "engine")
       => (/\ sent' = sent
           /\ pc'["S"] = "none"
           /\ sOut'[Len(sOut')].st = "ok")]_vars

\* C25's case: the stream was closed while an operation was streaming; the
\* operation has sent some but not all of its chunks, no end marker, and
\* has returned.
C25_Witness ==
  /\ ~sAct
  /\ pc["S"] = "none"
  /\ \E i \in 1 .. Len(sOut) :
       /\ sOut[i].st = "ok"
       /\ Len(FramesOf(sOut[i].op)) > 0
       /\ Len(FramesOf(sOut[i].op)) < sOut[i].n
       /\ \A j \in 1 .. Len(sent) : sent[j].op = sOut[i].op => sent[j].k # 0

\* C27: when the consumer takes a configure message from the queue of a
\* session whose transport is open, it sends exactly one success message
\* for it and nothing else, and the handling changes nothing of the
\* session but the removal of that message from the queue: the liveness
\* flags, the synthesis lock, the rest of the queue, the tasks and where
\* each stands, the transport and the registry entry are as before.
C27_ConfigureAcknowledgedNoEffect ==
  [][(/\ ConsumerReady
      /\ queue # <<>>
      /\ Head(queue).kind = "configure"
      /\ SendOk
      /\ handledSeq' # handledSeq)
     => (/\ ctl' = Append(ctl, [msg |-> Head(queue).id, type |-> "success"])
         /\ sent' = sent
         /\ queue' = Tail(queue)
         /\ hActive' = hActive
         /\ sAct' = sAct
         /\ streamLock' = streamLock
         /\ sOut' = sOut
         /\ pc' = pc
         /\ cancelReq' = cancelReq
         /\ wsState' = wsState
         /\ registered' = registered
         /\ finishedSeq' = Append(finishedSeq, Head(queue).id))]_vars

\* C27's case: a configure message has been acknowledged while a later
\* message waits in the queue, and the session is as it was.
C27_Witness ==
  /\ \E j \in 1 .. Len(ctl) : ctl[j] = [msg |-> 1, type |-> "success"]
  /\ finishedSeq = <<1>>
  /\ Len(queue) = 1
  /\ pc["P"] = "get"
  /\ wsState = "open"
  /\ sAct
  /\ hActive
  /\ ~streamLock
  /\ sOut = <<>>

\* C29: the handler's keepalive task sends no audio, success or error
\* frame and writes nothing of the inbox, the synthesis lock, the liveness
\* flags or the task list while its pings are sent; it leaves its loop for
\* teardown (cleanup) only after a ping send has failed, that is on a
\* transport that is closed or whose client is gone; and being cancelled
\* it ends without a write.
C29_KeepaliveOnlyPingsOrTeardown ==
  [][/\ (pc["K"] = "sleep" /\ pc'["K"] \notin {"sleep", "cancelled"})
          => (/\ ~(wsState = "open" /\ ~clientGone)
              /\ ~hActive'
              /\ queue' = queue
              /\ streamLock' = streamLock
              /\ sOut' = sOut
              /\ sent' = sent
              /\ ctl' = ctl)
     /\ (pc["K"] = "sleep" /\ pc'["K"] = "cancelled")
          => (/\ queue' = queue
              /\ streamLock' = streamLock
              /\ hActive' = hActive
              /\ sAct' = sAct
              /\ wsState' = wsState
              /\ sOut' = sOut
              /\ sent' = sent
              /\ ctl' = ctl)]_vars

\* C29's case: a ping send has failed on a client that is gone, and the
\* keepalive task is in cleanup with the inbox as it was.
C29_Witness ==
  /\ pc["K"] = "cl_wait"
  /\ clientGone
  /\ ~hActive
  /\ queue # <<>>
  /\ pc["E"] = "recv"

\* The ids of the messages in the inbox.
Queued == {queue[j].id : j \in 1 .. Len(queue)}

\* C30: no message is handled twice, no message is handled that was not put
\* into the inbox, a message leaves the inbox only by being handled (the
\* oldest first) and is not in the inbox once handled; and under fair
\* scheduling, whenever messages are in the inbox, all of them are
\* eventually handled and the inbox is empty, unless teardown (cleanup)
\* begins first -- also when the handler of an earlier message has failed.
C30_EveryQueuedMessageHandledOnce ==
  /\ [](/\ \A i, j \in 1 .. Len(handledSeq) : handledSeq[i] = handledSeq[j] => i = j
        /\ \A i \in 1 .. Len(handledSeq) : handledSeq[i] \in 1 .. nRecv
        /\ \A i \in 1 .. Len(handledSeq) : handledSeq[i] \notin Queued)
  /\ [][\A id \in Queued : id \notin Queued' =>
          (id = Head(queue).id /\ handledSeq' = Append(handledSeq, id))]_vars
  /\ (queue # <<>>) ~> (queue = <<>> \/ ~hActive)

\* C30's case: the request of the first message has failed (its engine call
\* raised), and the message behind it has been handled all the same, on a
\* session no cleanup has touched.
C30_Witness ==
  /\ hActive
  /\ Len(sOut) >= 1
  /\ sOut[1].st = "failed"
  /\ handledSeq = <<1, 2>>
  /\ finishedSeq = <<1, 2>>
  /\ queue = <<>>

\* A call of WSMessageHandler.cleanup by task o is in progress.
CleanupRunning(o) == pc[o] \in {"cl_wait", "cl_await_ping", "cl_ws_close"}

\* C31: teardown always terminates: every started call of
\* WSMessageHandler.cleanup (by the endpoint's "finally" or by the keepalive
\* task) ends, it ends by returning or by being cancelled and never with
\* an exception, and once no call is in progress any more at least one of
\* the started calls has run to its end.
C31_TeardownTerminates ==
  /\ [](\A o \in {"E", "K"} : pc[o] # "failed")
  /\ []((~hActive /\ ~CleanupRunning("E") /\ ~CleanupRunning("K")
          /\ pc["E"] \notin {"accepting", "recv"})
        => (pc["E"] = "done" \/ pc["K"] = "done"))
  /\ <>[](~CleanupRunning("E") /\ ~CleanupRunning("K"))

\* Every started call of cleanup does end, under fair scheduling; it may
\* end with the exception of a failed synthesis task.
CleanupCallsEnd == <>[](~CleanupRunning("E") /\ ~CleanupRunning("K"))


(***************************************************************************)
(* Claims about the engine singleton                                       *)
(***************************************************************************)
\* The task holding TTSModel._lock is inside its "async with".
EngineLockHeldInside ==
  engineLock # 0 => task[engineLock].pc = "in_engine"

\* C33: engine invocations are globally serialized: in every state at
\* most one call of the underlying engine is in progress, and the engine
\* lock is free after every call, whether it returned or raised: a task
\* that is not inside its engine call does not hold the lock.
C33_EngineCallsSerialized ==
  /\ EngineCallsInProgress <= 1
  /\ EngineLockHeldInside

\* C34: TTSModel.initialize is idempotent and safe under concurrency: the
\* engine is installed at most once, and exactly when _initialized is
\* true; _initialized never goes from true back to false; and a call whose
\* construction fails ends with ModelError, leaves _initialized false and
\* the lock free, so that a later call constructs again.
C34_InitializeOnce ==
  /\ [](built <= 1 /\ (initialized <=> built = 1))
  /\ [][initialized => initialized']_vars
  /\ [][\A t \in EngineTasks :
          (task'[t] # task[t] /\ task'[t].kind = "initialize"
             /\ task'[t].out = "ModelError")
          => (~initialized' /\ engineLock' = 0 /\ built' = 0
              /\ task'[t].pc = "idle")]_vars

\* A construction failed, a later call constructed the engine, and a call
\* after that returned without constructing.
C34_Witness ==
  /\ initialized
  /\ built = 1
  /\ engineLock = 0
  /\ \E t \in EngineTasks :
       task[t].kind = "initialize" /\ task[t].out = "ModelError"
  /\ \E t \in EngineTasks :
       task[t].kind = "initialize" /\ task[t].out = "returned"

\* C35: a synthesis requested before the engine is initialized fails with
\* ModelError("TTS model not initialized") in the run that calls it, with
\* no engine call started and the engine lock neither taken nor waited
\* for, for generate_speech and for generate_speech_stream (inside
\* stream_audio), which has not yielded a chunk; and while the engine is
\* not initialized no engine call is in progress at all.
C35_SynthesisBeforeInitializeFails ==
  /\ [](~initialized =>
          /\ engineLock = 0
          /\ engineWaiters = << >>
          /\ EngineCallsInProgress = 0
          /\ \A t \in EngineTasks : ~task[t].yielded)
  /\ [][\A t \in EngineTasks :
          (~initialized /\ task[t].pc = "idle" /\ task'[t] # task[t]
             /\ task'[t].kind \in {"generate_speech", "stream_audio"})
          => /\ task'[t].out = "ModelError_not_initialized"
             /\ task'[t].pc = "idle"
             /\ ~task'[t].yielded
             /\ ~task'[t].synth
             /\ engineLock' = engineLock
             /\ engineWaiters' = engineWaiters
             /\ EngineCallsInProgress' = EngineCallsInProgress]_vars

\* Both kinds of synthesis call have failed on the engine that is not
\* initialized.
C35_Witness ==
  /\ ~initialized
  /\ \E t \in EngineTasks :
       task[t].kind = "generate_speech" /\ task[t].out = "ModelError_not_initialized"
  /\ \E t \in EngineTasks :
       task[t].kind = "stream_audio" /\ task[t].out = "ModelError_not_initialized"

(***************************************************************************)
(* Claims about the locks                                                  *)
(***************************************************************************)
\* Task t waits for a lock that task u holds (u may be t: asyncio.Lock is
\* not reentrant).
WaitsFor ==
  {e \in LockTasks \X LockTasks :
     Wanted(e[1]) # NoLock /\ held[Wanted(e[1])] = e[2]}

\* The tasks that can be reached from task t along n or fewer waits.
RECURSIVE WaitChain(_, _)
WaitChain(t, n) ==
  IF n = 0 THEN {}
  ELSE LET next == {u \in LockTasks : <<t, u>> \in WaitsFor}
       IN next \cup UNION {WaitChain(u, n - 1) : u \in next}

\* The pairs (lock held, lock taken inside it) the operations may show.
NestingOrder ==
  {<<"connection", "stream_registry">>, <<"synthesis", "engine">>}

\* C32: the locks are deadlock-free: a task that takes or waits for a
\* lock while it holds another one holds the connection lock and takes
\* the stream-registry lock, or holds a synthesis lock and takes the
\* engine lock, and nothing else; no task waits, directly or through
\* other waiting tasks, for a lock it holds itself or for a task that
\* waits for it; and whenever an operation is in progress some task can
\* take its next step.
C32_LocksDeadlockFree ==
  /\ \A t \in LockTasks : \A h \in HeldBy(t) :
       Wanted(t) # NoLock => <<h.n, Wanted(t).n>> \in NestingOrder
  /\ \A t \in LockTasks : t \notin WaitChain(t, NumLockTasks)
  /\ (\E t \in LockTasks : ltask[t].op # "idle") =>
       \E t \in LockTasks :
         \/ StepOf(t).i \in {"leave", "await"}
         \/ StepOf(t).i = "enter" /\ held[Wanted(t)] = 0

\* One task is inside disconnect with the connection lock and the
\* stream-registry lock, another inside stream_audio with a synthesis lock
\* and the engine lock.
C32_Witness ==
  \E t, u \in LockTasks :
    /\ HeldBy(t) = {ConnectionLock, StreamRegistryLock}
    /\ ltask[t].op \in {"disconnect", "broadcast"}
    /\ \E s \in Conns : HeldBy(u) = {SynthesisLock(s), EngineLock}
    /\ ltask[u].op = "stream_audio"

\* A task waits for a lock another task holds.
LockContended ==
  \E t, u \in LockTasks : t # u /\ <<t, u>> \in WaitsFor

(***************************************************************************)
(* Claims about the shutdown block                                         *)
(***************************************************************************)
\* The shutdown block has run to its end.
ShutdownOver == lifespan.pc = "done"

\* Once the block is over without an exception, every session id of its
\* list is out of both registries and its transport is closed, and
\* _active_connections is empty.
ShutdownClosesListed ==
  (ShutdownOver /\ ~lifespan.error) =>
     /\ active_connections = {}
     /\ \A i \in 1 .. Len(lifespan.active_streams) :
          /\ lifespan.active_streams[i] \notin streams
          /\ closeCode[lifespan.active_streams[i]] # 0

\* C37: after the shutdown block of lifespan has run,
\* ws_manager._active_connections is empty, stream_manager._streams is
\* empty, and the transport of every stream that was registered when the
\* block started, through WebSocketManager.connect or through
\* WSMessageHandler.initialize, has been closed.
C37_ShutdownClosesEverySession ==
  ShutdownOver =>
     /\ active_connections = {}
     /\ streams = {}
     /\ \A c \in lifespan.registered : closeCode[c] # 0

\* The block has disconnected a session admitted through connect.
ShutdownDisconnected ==
  /\ ShutdownOver
  /\ ~lifespan.error
  /\ Len(lifespan.active_streams) > 0
  /\ streams = {}

\* The block is over without an exception and a stream registered through
\* WSMessageHandler.initialize is still in _streams, its transport open.
ShutdownLeavesHandlerSession ==
  /\ ShutdownOver
  /\ ~lifespan.error
  /\ \E c \in streams : cpc[c] = "h_registered" /\ closeCode[c] = 0

(***************************************************************************)
(* Claims about _handle_synthesis, checked under SpecSynthesis             *)
(***************************************************************************)
\* C26: once _handle_synthesis has run on a message: when "text" is
\* missing or empty it has sent the error "No text provided" and has
\* created no synthesis task (so the streamer, which alone invokes the
\* engine and takes the synthesis lock, is not called); when it has created
\* a task, the text passed is the message's, the voice passed is "default"
\* for a message without "voice" and the speed passed is 1.0 for a message
\* without "speed".
C26_SynthesizeValidatedAndDefaulted ==
  synOut.called =>
    /\ (synMsg.text \in {Absent, Str("")}) =>
         (synOut.error = "No text provided" /\ ~synOut.task /\ synOut.args = NoArgs)
    /\ synOut.task =>
         /\ synOut.error = "none"
         /\ synOut.args.text = synMsg.text
         /\ synMsg.text.t = "str" /\ synMsg.text.v # ""
         /\ synMsg.voice = Absent => synOut.args.voice = Str("default")
         /\ synMsg.voice # Absent => synOut.args.voice = synMsg.voice
         /\ synMsg.speed = Absent => synOut.args.speed = Num(10)
         /\ synMsg.speed \in {Num(10), Num(20)} => synOut.args.speed = synMsg.speed
    /\ (synMsg.text = Str("hi") /\ synMsg.speed \in {Absent, Num(10), Num(20)})
         => synOut.task

\* C26's case: a message with text and neither voice nor speed has been
\* handled, and a task streams it with the defaults.
C26_Witness ==
  /\ synOut.called
  /\ synMsg = [text |-> Str("hi"), voice |-> Absent, speed |-> Absent]
  /\ synOut.task
  /\ synOut.args = [text |-> Str("hi"), voice |-> Str("default"), speed |-> Num(10)]

(***************************************************************************)
(* Claims about generate_speech_stream, checked under SpecChunking         *)
(***************************************************************************)
\* The int16 sample at 1-based position j of a byte string: low byte first,
\* two's complement.
SampleAt(bytes, j) ==
  LET u == bytes[2 * j - 1] + 256 * bytes[2 * j]
  IN IF u >= 32768 THEN u - 65536 ELSE u

\* The number of chunks yielded for n samples at chunk size c: ceil(n / c).
CeilDiv(n, c) == (n + c - 1) \div c

\* C28: with c the chunk size in force (the argument, or the default
\* CHUNK_SIZE when none is given) and n the number of samples of the
\* waveform: every chunk yielded so far has exactly c samples; the sample j
\* of the chunk k is the waveform's sample at position (k-1)*c + j (counted
\* from 1) when the waveform has one there and zero otherwise; the chunks
\* come in the order of the waveform; and when the generator has ended it
\* has yielded exactly ceil(n/c) chunks, none for n = 0.
C28_FixedSizeChunksZeroPadded ==
  LET c == IF chunk_size = 0 THEN CHUNK_SIZE ELSE chunk_size
      n == Len(wav)
  IN /\ \A k \in 1 .. Len(chunks) :
          /\ Len(chunks[k]) = 2 * c
          /\ \A j \in 1 .. c :
               SampleAt(chunks[k], j) =
                 IF (k - 1) * c + j <= n THEN wav[(k - 1) * c + j] ELSE 0
     /\ Len(chunks) <= CeilDiv(n, c)
     /\ gi >= 0 => gi = Len(chunks) * c
     /\ gi = -1 => Len(chunks) = CeilDiv(n, c)
     /\ (gi = -1 /\ n = 0) => chunks = << >>

\* C28's case: a waveform that is not a multiple of the chunk size has been
\* chunked to the end into more than one chunk, the last one padded.
C28_Witness ==
  /\ gi = -1
  /\ chunk_size # 0
  /\ Len(wav) % chunk_size # 0
  /\ Len(chunks) >= 2
  /\ SampleAt(chunks[Len(chunks)], chunk_size) = 0
  /\ SampleAt(chunks[1], 1) = -2
====
